---- MODULE Spec2Model ----
(***************************************************************************)
(* Saarathi: ledger, receivables, staff obligations, cash projections and  *)
(* the health score, modelled from the TypeScript sources.                 *)
(*                                                                         *)
(* Numbers.  Amounts are whole rupees.  The projection code divides sums   *)
(* by 30 and multiplies by 1.3, so the running cash of a projection is     *)
(* kept as an exact count of 1/300 rupee (Scale); Math.round is applied    *)
(* where the code applies it.  Dates are day indices into a fixed stretch  *)
(* of the calendar (index 0 = Wed 1 Jan 2025).                             *)
(***************************************************************************)
EXTENDS Integers, Sequences, FiniteSets, Bags, TLC

VARIABLES
    today,          \* new Date(): the current day (index into the calendar)
    currentCash,    \* owner.currentCash
    staff,          \* active staff rows of the owner: name -> row
    onboardingStep, \* owner.onboardingStep
    ledger,         \* transaction rows of the owner: a bag of rows
    customers,      \* customer rows, in creation order (the index is the id)
    receivables,    \* receivable rows, in creation order (the index is the id)
    projections,    \* projection rows of the owner: date -> row
    out,            \* what the last handled operation computed and returned
    owners,         \* the owner table a scheduled task iterates, in findMany order
    job,            \* the scheduled task run in progress: its owner list, position and log
    inflight,       \* the messages being handled: what each handler has read and how far it is
    simulator       \* lib/whatsapp.ts: pendingResponses, with the texts sent and returned so far

vars == <<today, currentCash, staff, onboardingStep, ledger, customers, receivables, projections, out,
          owners, job, inflight, simulator>>

---------------------------------------------------------------------------
(* Bounds of the model *)

MaxDay == 28        \* last day index "today" may reach
MaxStaff == 2       \* most staff rows an owner has
MaxTxns == 2        \* most transactions the handlers log
MaxReceivables == 2 \* most receivables on the books when one more is created by hand

---------------------------------------------------------------------------
(* Calendar: Date.getDate(), Date.getDay(), setDate(getDate() + i) *)

\* a plausible slip: every month taken as 30 days long
MonthLens30 == <<30, 30, 30, 30>>

MonthLens == <<31, 28, 31, 30>>

RECURSIVE DayInMonth(_, _)
DayInMonth(d, m) ==
    IF d < MonthLens[m] THEN [month |-> m, dom |-> d + 1]
    ELSE DayInMonth(d - MonthLens[m], m + 1)

getDate(d) == DayInMonth(d, 1).dom
getMonth(d) == DayInMonth(d, 1).month
getDay(d) == (d + 3) % 7
isWeekend(d) == getDay(d) = 0 \/ getDay(d) = 6

---------------------------------------------------------------------------
(* Arithmetic helpers *)

Scale == 300

\* Math.round of n/den (den > 0): the nearest integer, halves rounded up
Round(n, den) == (2 * n + den) \div (2 * den)

\* Math.floor of n/den (den > 0)
Floor(n, den) == n \div den

Max(a, b) == IF a >= b THEN a ELSE b

RECURSIVE SumAmount(_)
SumAmount(S) ==
    IF S = {} THEN 0
    ELSE LET x == CHOOSE y \in S : TRUE IN x.amount + SumAmount(S \ {x})

\* .reduce((sum, t) => sum + t.amount, 0) over the rows S of the bag txns
RECURSIVE SumRows(_, _)
SumRows(txns, S) ==
    IF S = {} THEN 0
    ELSE LET x == CHOOSE y \in S : TRUE
         IN x.amount * CopiesIn(x, txns) + SumRows(txns, S \ {x})

---------------------------------------------------------------------------
(* Staff rows.  paymentDay is number | null: <<>> is null, <<k>> is k. *)

OrOne(paymentDay) ==
    IF paymentDay = <<>> \/ paymentDay[1] = 0 THEN 1 ELSE paymentDay[1]

StaffRow(type, amount, pd, adv) ==
    [salaryType |-> type, salaryAmount |-> amount, paymentDay |-> pd, advanceBalance |-> adv]

\* .filter((s) => s.salaryType === "monthly").map(...) of the projection code
MonthlyFilter(s) == s.salaryType = "monthly"

SalaryAmountDue(s) == s.salaryAmount - s.advanceBalance

MonthlySalaries(st) ==
    { [name |-> n, amount |-> SalaryAmountDue(st[n]), day |-> OrOne(st[n].paymentDay)] :
        n \in { m \in DOMAIN st : MonthlyFilter(st[m]) } }

\* a plausible slip: every salary whose day has passed counts as due
SalariesDueLate(ms, dayOfMonth) == { s \in ms : s.day <= dayOfMonth }

\* monthlySalaries.filter((s) => s.day === dayOfMonth)
SalariesDue(ms, dayOfMonth) == { s \in ms : s.day = dayOfMonth }

\* the staff an owner may have on the payroll
StaffPool ==
    [ Ramu  |-> StaffRow("monthly", 10000, <<1>>, 0),
      Sita  |-> StaffRow("monthly", 8000, <<1>>, 2000),
      Bunty |-> StaffRow("daily", 500, <<>>, 0),
      Gita  |-> StaffRow("monthly", 1000, <<28>>, 3000),
      Hari  |-> StaffRow("monthly", 5000, <<0>>, 0),
      Mohan |-> StaffRow("daily", 400, <<1>>, 0) ]

---------------------------------------------------------------------------
(* Historical averages: transactions of the last 30 days, summed by type  *)
(* and divided by 30.  The results are in 1/Scale rupee: sum/30 = 10*sum/300 *)

InWindow(txns, now) == { t \in BagToSet(txns) : t.day >= now - 30 }

ExpenseTypes == {"expense"}

DailyExpenses(txns, now) ==
    10 * SumRows(txns, { t \in InWindow(txns, now) : t.type \in ExpenseTypes })
DailyIncome(txns, now) ==
    10 * SumRows(txns, { t \in InWindow(txns, now) : t.type = "income" })

\* dailyIncome * (weekend ? 1.3 : 1), in 1/Scale rupee
WeekendBoost(dailyIncome, date) ==
    IF isWeekend(date) THEN (13 * dailyIncome) \div 10 ELSE dailyIncome

---------------------------------------------------------------------------
(* The record of a projection run: the owner snapshot it read (day, cash,  *)
(* staff) and, per forecast day, the loop's locals and what it emitted.    *)

Reply(op, rows, next3Days, payments) ==
    [op |-> op, day |-> today, cash |-> currentCash, staff |-> staff,
     rows |-> rows, next3Days |-> next3Days, payments |-> payments,
     health |-> <<>>, alerts |-> <<>>]

Ran(op, rows, next3Days) == Reply(op, rows, next3Days, <<>>)

NoOut ==
    [op |-> "none", day |-> 0, cash |-> 0, staff |-> <<>>,
     rows |-> <<>>, next3Days |-> <<>>, payments |-> <<>>, health |-> <<>>, alerts |-> <<>>]
NoRows == [d \in {} |-> 0]

\* the simulator before any text is sent
\* (pendingResponses is the module's Map; sent, unread, taken, dropped and
\* returned record the calls made and what they returned)
NoTexts == [mode |-> "simulator", pendingResponses |-> <<>>, sent |-> <<>>, unread |-> {},
            taken |-> <<>>, dropped |-> {},
            returned |-> [call |-> "none", phone |-> "", texts |-> <<>>, unread |-> FALSE,
                          ok |-> TRUE]]

\* no scheduled task is running
NoJob == [task |-> "none", queue |-> <<>>, i |-> 1, log |-> <<>>, result |-> <<>>]

---------------------------------------------------------------------------
(* refreshProjections: the 30-day stored forecast *)

RefreshFlags(runningCash, salariesToday, dailyExpenses) ==
    LET f1 == IF runningCash < 0 THEN {"negative"} ELSE {}
        f2 == IF salariesToday > 0 THEN {"salary_due"} ELSE {}
        f3 == IF runningCash < dailyExpenses * 3 /\ "negative" \notin f1
              THEN {"low_cash"} ELSE {}
    IN f1 \cup f2 \cup f3

Confidence(i) == IF i < 3 THEN "high" ELSE IF i < 7 THEN "medium" ELSE "low"

RefreshDay(i, running, dailyIncome, dailyExpenses, ms, now) ==
    LET date == now + i
        dayOfMonth == getDate(date)
        expectedIn == WeekendBoost(dailyIncome, date)
        salariesToday == SumAmount(SalariesDue(ms, dayOfMonth))
        expectedOut == dailyExpenses + Scale * salariesToday
        runningCash == running + expectedIn - expectedOut
    IN [ i |-> i, date |-> date,
         runningCash |-> runningCash, scale |-> Scale,
         salaryAmount |-> salariesToday,
         due |-> SalariesDue(ms, dayOfMonth),
         dailyExpenses |-> dailyExpenses,
         projectedCash |-> Round(runningCash, Scale),
         expectedIn |-> Round(expectedIn, Scale),
         expectedOut |-> Round(expectedOut, Scale),
         commitments |-> IF salariesToday > 0 THEN SalariesDue(ms, dayOfMonth) ELSE {},
         confidence |-> Confidence(i),
         flags |-> RefreshFlags(runningCash, salariesToday, dailyExpenses),
         generatedAt |-> now ]

RECURSIVE RefreshLoop(_, _, _, _, _, _, _)
RefreshLoop(i, n, running, dailyIncome, dailyExpenses, ms, now) ==
    IF i >= n THEN <<>>
    ELSE LET row == RefreshDay(i, running, dailyIncome, dailyExpenses, ms, now)
         IN <<row>> \o RefreshLoop(i + 1, n, row.runningCash, dailyIncome, dailyExpenses, ms, now)

RefreshRows(cash, st, txns, now) ==
    RefreshLoop(0, 30, Scale * cash, DailyIncome(txns, now), DailyExpenses(txns, now),
                MonthlySalaries(st), now)

\* the columns db.projection.upsert writes
StoredRow(r) ==
    [ date |-> r.date, projectedCash |-> r.projectedCash, expectedIn |-> r.expectedIn,
      expectedOut |-> r.expectedOut, commitments |-> r.commitments,
      confidence |-> r.confidence, flags |-> r.flags, generatedAt |-> r.generatedAt ]

Upsert(table, rows) ==
    LET dates == { rows[k].date : k \in 1..Len(rows) }
        rowOf(d) == rows[CHOOSE k \in 1..Len(rows) : rows[k].date = d]
    IN [ d \in DOMAIN table \cup dates |->
           IF d \in dates THEN StoredRow(rowOf(d)) ELSE table[d] ]

refreshProjections ==
    LET rows == RefreshRows(currentCash, staff, ledger, today)
    IN /\ projections' = Upsert(projections, rows)
       /\ out' = Ran("refreshProjections", rows, <<>>)
       /\ UNCHANGED <<inflight, simulator, owners, job, today, currentCash, staff, onboardingStep, ledger, customers, receivables>>

\* the 30 upserts are awaited one after the other: a run in which an upsert
\* throws has made the n before it, which is also what a reader sees of a run
\* in progress
refreshProjectionsThrows ==
    LET rows == RefreshRows(currentCash, staff, ledger, today)
    IN /\ \E n \in {0, 10} :
            /\ projections' = Upsert(projections, SubSeq(rows, 1, n))
            /\ out' = Ran("refreshProjections threw", SubSeq(rows, 1, n), <<>>)
       /\ UNCHANGED <<inflight, simulator, owners, job, today, currentCash, staff, onboardingStep, ledger, customers, receivables>>

---------------------------------------------------------------------------
(* The readers of the stored projections *)

\* findMany({ orderBy: { date: "asc" }, take: n })
TakeByDate(table, n) ==
    LET dates == DOMAIN table
        nth(k) == CHOOSE d \in dates : Cardinality({ e \in dates : e < d }) = k - 1
        len == IF Cardinality(dates) < n THEN Cardinality(dates) ELSE n
    IN [ k \in 1..len |-> table[nth(k)] ]

\* GET /api/state: the owner with the first 7 stored projections
getState ==
    /\ out' = [Ran("getState", TakeByDate(projections, 7), <<>>) EXCEPT !.alerts = <<"stored">>]
    /\ UNCHANGED <<inflight, simulator, owners, job, today, currentCash, staff, onboardingStep, ledger, customers,
                   receivables, projections>>

\* the agent's getCashForecast tool: the first `days` stored projections, or a
\* forecast made on the spot from the payroll when none is stored
getCashForecast ==
    /\ \E days \in {7, 30} :
         LET stored == TakeByDate(projections, days)
             monthlyPayroll == SumAmount({ [name |-> n, amount |-> staff[n].salaryAmount] :
                                           n \in DOMAIN staff })
             cash(i) == 30 * currentCash - i * monthlyPayroll
             forecast == [ i \in 1..days |->
                           [ i |-> i, date |-> today + i,
                             projectedCash |-> Round(cash(i), 30),
                             confidence |-> "medium",
                             flags |-> (IF cash(i) < 0 THEN {"negative"} ELSE {})
                                       \cup (IF 2 * cash(i) < 30 * monthlyPayroll
                                             THEN {"low_cash"} ELSE {})
                                       \cup (IF getDate(today + i) = 1
                                             THEN {"salary_due"} ELSE {}) ] ]
         IN out' = IF Len(stored) = 0
                   THEN [Ran("getCashForecast", forecast, <<>>) EXCEPT !.alerts = <<"generated">>]
                   ELSE [Ran("getCashForecast", stored, <<>>) EXCEPT !.alerts = <<"stored">>]
    /\ UNCHANGED <<inflight, simulator, owners, job, today, currentCash, staff, onboardingStep, ledger, customers,
                   receivables, projections>>

---------------------------------------------------------------------------
(* generateProjections: the 7-day forecast of a projection query *)

QueryFlags(runningCash, salaryAmount, dailyExpenses) ==
    IF runningCash < 0 THEN {"negative"}
    ELSE IF salaryAmount > 0 THEN {"salary_due"}
    ELSE IF runningCash < dailyExpenses * 3 THEN {"low_cash"}
    ELSE {}

QueryDay(i, running, dailyIncome, dailyExpenses, ms, now) ==
    LET date == now + i
        dayOfMonth == getDate(date)
        salaryAmount == SumAmount(SalariesDue(ms, dayOfMonth))
        expectedIn == WeekendBoost(dailyIncome, date)
        expectedOut == dailyExpenses + Scale * salaryAmount
        runningCash == running + expectedIn - expectedOut
    IN [ i |-> i, date |-> date,
         runningCash |-> runningCash, scale |-> Scale,
         salaryAmount |-> salaryAmount,
         due |-> SalariesDue(ms, dayOfMonth),
         dailyExpenses |-> dailyExpenses,
         cash |-> Round(runningCash, Scale),
         flags |-> QueryFlags(runningCash, salaryAmount, dailyExpenses) ]

RECURSIVE QueryLoop(_, _, _, _, _, _, _)
QueryLoop(i, n, running, dailyIncome, dailyExpenses, ms, now) ==
    IF i >= n THEN <<>>
    ELSE LET row == QueryDay(i, running, dailyIncome, dailyExpenses, ms, now)
         IN <<row>> \o QueryLoop(i + 1, n, row.runningCash, dailyIncome, dailyExpenses, ms, now)

generateProjections(cash, st, txns, now) ==
    QueryLoop(0, 7, Scale * cash, DailyIncome(txns, now), DailyExpenses(txns, now),
              MonthlySalaries(st), now)

\* the reply carries the forecast and, in alerts, the index of firstProblem
handleProjectionQuery ==
    /\ LET rows == generateProjections(currentCash, staff, ledger, today)
           problemDays == SelectSeq(rows, LAMBDA p : \/ "negative" \in p.flags
                                                     \/ "salary_due" \in p.flags)
       IN out' = [Ran("generateProjections", rows, <<>>) EXCEPT
                    !.alerts = IF Len(problemDays) > 0 THEN <<problemDays[1].i>> ELSE <<>>]
    /\ UNCHANGED <<inflight, simulator, owners, job, today, currentCash, staff, onboardingStep, ledger, customers, receivables, projections>>

---------------------------------------------------------------------------
(* lib/briefs.ts: getBusinessData's 3-day projection and the 7-day         *)
(* projection of generateMorningBrief.  getBusinessData keeps its cash in  *)
(* 1/30 rupee (dailyBurn = monthlyPayroll / 30); the morning brief keeps   *)
(* it in 1/getDate(now) rupee (dailyExpense = monthExpenses / getDate).    *)

StartOfMonth(now) == now - (getDate(now) - 1)

MonthExpenses(txns, now) ==
    SumRows(txns, { t \in BagToSet(txns) : t.day >= StartOfMonth(now) /\ t.type # "income" })

\* staff.reduce((sum, s) => sum + s.salaryAmount, 0)
MonthlyPayroll(st) ==
    SumAmount({ [name |-> n, amount |-> st[n].salaryAmount] : n \in DOMAIN st })

Next3Flag(projectedCash, isSalaryDay, monthlyPayroll) ==
    IF projectedCash < 0 THEN "negative"
    ELSE IF isSalaryDay THEN "salary"
    ELSE IF 2 * projectedCash < 30 * monthlyPayroll THEN "low"
    ELSE "ok"

Next3Day(i, running, st, now) ==
    LET date == now + i
        monthlyPayroll == MonthlyPayroll(st)
        isSalaryDay == getDate(date) = 1
        projectedCash == running - monthlyPayroll
                           - (IF isSalaryDay THEN 30 * monthlyPayroll ELSE 0)
    IN [ i |-> i, date |-> date,
         runningCash |-> projectedCash, scale |-> 30,
         salaryAmount |-> IF isSalaryDay THEN monthlyPayroll ELSE 0,
         due |-> IF isSalaryDay
                 THEN { [name |-> n, amount |-> st[n].salaryAmount, day |-> 1] :
                          n \in DOMAIN st }
                 ELSE {},
         amount |-> Round(projectedCash, 30),
         flag |-> Next3Flag(projectedCash, isSalaryDay, monthlyPayroll) ]

RECURSIVE Next3Loop(_, _, _, _, _)
Next3Loop(i, n, running, st, now) ==
    IF i > n THEN <<>>
    ELSE LET row == Next3Day(i, running, st, now)
         IN <<row>> \o Next3Loop(i + 1, n, row.runningCash, st, now)

next3Days(cash, st, now) == Next3Loop(1, 3, 30 * cash, st, now)

getBusinessData ==
    /\ out' = Ran("getBusinessData", <<>>, next3Days(currentCash, staff, today))
    /\ UNCHANGED <<inflight, simulator, owners, job, today, currentCash, staff, onboardingStep, ledger, customers, receivables, projections>>

\* for (const s of data.staff) salaryByDay[s.paymentDay || 1] += salaryAmount - advanceBalance
SalaryByDay(st, dayOfMonth) ==
    { [name |-> n, amount |-> st[n].salaryAmount - st[n].advanceBalance,
       day |-> OrOne(st[n].paymentDay)] :
        n \in { m \in DOMAIN st : OrOne(st[m].paymentDay) = dayOfMonth } }

BriefDay(i, running, monthExpenses, st, now) ==
    LET date == now + i
        dom == Max(getDate(now), 1)
        salaryDue == SumAmount(SalaryByDay(st, getDate(date)))
        runningCash == running - monthExpenses
                         - (IF salaryDue > 0 THEN dom * salaryDue ELSE 0)
    IN [ i |-> i, date |-> date,
         runningCash |-> runningCash, scale |-> dom,
         salaryAmount |-> salaryDue,
         due |-> SalaryByDay(st, getDate(date)),
         cash |-> Round(runningCash, dom),
         hasSalary |-> salaryDue > 0,
         isProblem |-> runningCash < 0 ]

RECURSIVE BriefLoop(_, _, _, _, _, _)
BriefLoop(i, n, running, monthExpenses, st, now) ==
    IF i >= n THEN <<>>
    ELSE LET row == BriefDay(i, running, monthExpenses, st, now)
         IN <<row>> \o BriefLoop(i + 1, n, row.runningCash, monthExpenses, st, now)

BriefRows(cash, st, txns, now) ==
    BriefLoop(0, 7, Max(getDate(now), 1) * cash, MonthExpenses(txns, now), st, now)

\* the prompt carries the forecast and, in alerts, the index of problemDay:
\* the first day with isProblem (if (isProblem && !problemDay) problemDay = ...)
generateMorningBrief ==
    /\ LET rows == BriefRows(currentCash, staff, ledger, today)
           problems == SelectSeq(rows, LAMBDA p : p.isProblem)
       IN out' = [Ran("generateMorningBrief", rows, next3Days(currentCash, staff, today)) EXCEPT
                    !.alerts = IF Len(problems) > 0 THEN <<problems[1].i>> ELSE <<>>]
    /\ UNCHANGED <<inflight, simulator, owners, job, today, currentCash, staff, onboardingStep, ledger, customers, receivables, projections>>

---------------------------------------------------------------------------
(* Customers and receivables (services/transaction.ts, lib/ai.ts).         *)
(* A nullable column is <<>> (null) or <<v>>.                              *)

CustomerRow(name, score, avgDays) ==
    [name |-> name, reliabilityScore |-> score, avgDaysToPay |-> avgDays]

ReceivableRow(customerId, amount, amountPaid, status, createdAt) ==
    [customerId |-> customerId, amount |-> amount, amountPaid |-> amountPaid,
     status |-> status, createdAt |-> createdAt, paidAt |-> <<>>]

\* db.customer.findFirst({ where: { name: { equals: name } } }): the id, or 0
\* when there is none
FindCustomer(custs, name) ==
    IF \E i \in 1..Len(custs) : custs[i].name = name
    THEN CHOOSE i \in 1..Len(custs) :
            /\ custs[i].name = name
            /\ \A j \in 1..(i - 1) : custs[j].name # name
    ELSE 0

\* name: { contains: part }: the names in use and the parts they are asked by
Contains(full, part) ==
    \/ full = part
    \/ <<full, part>> \in { <<"Kumar Family", "Kumar">>, <<"Sharma Ji", "Sharma">>,
                            <<"Singh Sahab", "Singh">> }

\* a plausible slip: the status filter of the lookup left out
IsOpenAny(r) == r.status \in {"pending", "partial", "paid"}

\* where: { status: { in: ["pending", "partial"] } }
IsOpen(r) == r.status \in {"pending", "partial"}

\* db.receivable.findFirst({ where: {customerId, open}, orderBy: { createdAt: "asc" } })
FindReceivable(rcv, customerId) ==
    LET open == { i \in 1..Len(rcv) : rcv[i].customerId = customerId /\ IsOpen(rcv[i]) }
    IN IF open = {} THEN 0
       ELSE CHOOSE i \in open :
              \A j \in open : \/ rcv[i].createdAt < rcv[j].createdAt
                              \/ (rcv[i].createdAt = rcv[j].createdAt /\ i <= j)

\* a plausible slip: the stored amountPaid is not clamped to the amount
ApplyPaymentUnclamped(r, amount, now) ==
    IF r.amount - (r.amountPaid + amount) <= 0
    THEN [r EXCEPT !.amountPaid = r.amountPaid + amount, !.status = "paid", !.paidAt = <<now>>]
    ELSE [r EXCEPT !.amountPaid = r.amountPaid + amount, !.status = "partial"]

\* the two db.receivable.update calls of updateReceivable
ApplyPayment(r, amount, now) ==
    LET newAmountPaid == r.amountPaid + amount
        remaining == r.amount - newAmountPaid
    IN IF remaining <= 0
       THEN [r EXCEPT !.amountPaid = r.amount, !.status = "paid", !.paidAt = <<now>>]
       ELSE [r EXCEPT !.amountPaid = newAmountPaid, !.status = "partial"]

\* a plausible slip: the bucket bounds taken as exclusive
ReliabilityScoreStrict(daysSinceCreated) ==
    IF daysSinceCreated < 7 THEN 80 ELSE IF daysSinceCreated < 14 THEN 60 ELSE 40

ReliabilityScore(daysSinceCreated) ==
    IF daysSinceCreated <= 7 THEN 80 ELSE IF daysSinceCreated <= 14 THEN 60 ELSE 40

\* updateReceivable(ownerId, customerId, amount) on the tables in db
updateReceivable(db, customerId, amount, now) ==
    LET rid == FindReceivable(db.receivables, customerId)
    IN IF rid = 0
       THEN [db EXCEPT !.payments = Append(@,
                [customerId |-> customerId, amount |-> amount, rid |-> 0,
                 before |-> <<>>, after |-> <<>>])]
       ELSE LET receivable == db.receivables[rid]
                daysSinceCreated == now - receivable.createdAt
            IN [db EXCEPT
                  !.receivables[rid] = ApplyPayment(receivable, amount, now),
                  !.customers[customerId].avgDaysToPay = <<daysSinceCreated>>,
                  !.customers[customerId].reliabilityScore =
                        <<ReliabilityScore(daysSinceCreated)>>,
                  !.payments = Append(@, [customerId |-> customerId, amount |-> amount,
                                          rid |-> rid, before |-> <<receivable>>,
                                          after |-> <<ApplyPayment(receivable, amount, now)>>])]

\* findOrCreateCustomer(ownerId, name)
findOrCreateCustomer(db, name) ==
    IF FindCustomer(db.customers, name) # 0 THEN db
    ELSE [db EXCEPT !.customers = Append(@, CustomerRow(name, <<>>, <<>>))]

\* a plausible slip: the two totals are mixed up
LogTxnTotalsSwapped(db, txn, type, now) ==
    LET withCustomer == txn.personName # "" /\ (txn.type = "income" \/ type = "income")
        db1 == IF withCustomer THEN findOrCreateCustomer(db, txn.personName) ELSE db
        db2 == IF withCustomer
               THEN updateReceivable(db1, FindCustomer(db1.customers, txn.personName),
                                     txn.amount, now)
               ELSE db1
        row == [type |-> txn.type, amount |-> txn.amount, day |-> now,
                via |-> "handleTransaction"]
    IN [db2 EXCEPT
          !.ledger = @ (+) SetToBag({row}),
          !.totalIn = IF txn.type = "income" THEN @ ELSE @ + txn.amount,
          !.totalOut = IF txn.type = "income" THEN @ + txn.amount ELSE @]

\* one turn of handleTransaction's loop over the parsed transactions
LogTxn(db, txn, type, now) ==
    LET withCustomer == txn.personName # "" /\ (txn.type = "income" \/ type = "income")
        db1 == IF withCustomer THEN findOrCreateCustomer(db, txn.personName) ELSE db
        db2 == IF withCustomer
               THEN updateReceivable(db1, FindCustomer(db1.customers, txn.personName),
                                     txn.amount, now)
               ELSE db1
        row == [type |-> txn.type, amount |-> txn.amount, day |-> now,
                via |-> "handleTransaction"]
    IN [db2 EXCEPT
          !.ledger = @ (+) SetToBag({row}),
          !.totalIn = IF txn.type = "income" THEN @ + txn.amount ELSE @,
          !.totalOut = IF txn.type = "income" THEN @ ELSE @ + txn.amount]

RECURSIVE LogTxns(_, _, _, _)
LogTxns(db, txns, type, now) ==
    IF txns = <<>> THEN db
    ELSE LogTxns(LogTxn(db, Head(txns), type, now), Tail(txns), type, now)

Parsed(type, amount, personName) ==
    [type |-> type, amount |-> amount, personName |-> personName]

\* what parseTransactions / parseSimpleTransactions make of the messages sent
Messages ==
    { [type |-> "income", txns |-> << Parsed("income", p, "Kumar") >>] : p \in {0, 3000, 6000} }
    \cup
    { [type |-> "income", txns |-> << Parsed("income", 3000, "Kumar"),
                                      Parsed("income", 6000, "Kumar") >>],
      [type |-> "income", txns |-> << Parsed("income", 6000, "Kumar Family") >>],
      [type |-> "income", txns |-> << Parsed("income", 5000, "Sharma") >>],
      [type |-> "expense", txns |-> << Parsed("expense", 1200, "") >>],
      [type |-> "expense", txns |-> << >>] }

\* rows logged by the handlers (the rows of the demo seed are not counted)
Logged(txns) ==
    BagCardinality([ t \in { x \in BagToSet(txns) : x.via \notin {"seed", "history"} }
                        |-> CopiesIn(t, txns) ])

handleTransaction ==
    /\ onboardingStep = "COMPLETE"
    /\ \E m \in Messages :
         /\ Logged(ledger) + Len(m.txns) <= MaxTxns
         /\ LET db == LogTxns([customers |-> customers, receivables |-> receivables,
                               ledger |-> ledger, totalIn |-> 0, totalOut |-> 0,
                               payments |-> <<>>],
                              m.txns, m.type, today)
            IN /\ customers' = db.customers
               /\ receivables' = db.receivables
               /\ ledger' = db.ledger
               /\ currentCash' = IF m.txns = <<>> THEN currentCash
                                 ELSE currentCash + db.totalIn - db.totalOut
               /\ out' = Reply("handleTransaction", <<>>, <<>>, db.payments)
    /\ UNCHANGED <<inflight, simulator, owners, job, today, staff, onboardingStep, projections>>

\* the agent's createReceivable tool
createReceivable ==
    /\ onboardingStep = "COMPLETE"
    /\ Len(receivables) < MaxReceivables
    /\ \E customerName \in {"Kumar", "Sharma"}, amount \in {0, 8000} :
         LET found == { i \in 1..Len(customers) : Contains(customers[i].name, customerName) }
         IN IF found = {}
            THEN /\ customers' = Append(customers, CustomerRow(customerName, <<>>, <<>>))
                 /\ receivables' = Append(receivables,
                        ReceivableRow(Len(customers) + 1, amount, 0, "pending", today))
            ELSE \E customer \in found :
                   /\ customers' = customers
                   /\ receivables' = Append(receivables,
                          ReceivableRow(customer, amount, 0, "pending", today))
    /\ out' = Reply("createReceivable", <<>>, <<>>, <<>>)
    /\ UNCHANGED <<inflight, simulator, owners, job, today, currentCash, staff, onboardingStep, ledger, projections>>

---------------------------------------------------------------------------
(* Onboarding through routeMessage (services/onboarding.ts):               *)
(* START -> NAME -> CASH -> STAFF -> PENDING -> COMPLETE                   *)

handleStart ==
    /\ onboardingStep = "START"
    /\ onboardingStep' = "NAME"
    /\ out' = Reply("handleStart", <<>>, <<>>, <<>>)
    /\ UNCHANGED <<inflight, simulator, owners, job, today, currentCash, staff, ledger, customers, receivables, projections>>

\* a plausible slip: the name step hands over to the staff step
handleNameSkipsCash ==
    /\ onboardingStep = "NAME"
    /\ onboardingStep' = "STAFF"
    /\ out' = Reply("handleName", <<>>, <<>>, <<>>)
    /\ UNCHANGED <<inflight, simulator, owners, job, today, currentCash, staff, ledger, customers, receivables, projections>>

handleName ==
    /\ onboardingStep = "NAME"
    /\ onboardingStep' = "CASH"
    /\ out' = Reply("handleName", <<>>, <<>>, <<>>)
    /\ UNCHANGED <<inflight, simulator, owners, job, today, currentCash, staff, ledger, customers, receivables, projections>>

handleCash ==
    /\ onboardingStep = "CASH"
    /\ \E amount \in {0, 28500} :
         IF amount <= 0
         THEN UNCHANGED <<currentCash, onboardingStep>>
         ELSE currentCash' = amount /\ onboardingStep' = "STAFF"
    /\ out' = Reply("handleCash", <<>>, <<>>, <<>>)
    /\ UNCHANGED <<inflight, simulator, owners, job, today, staff, ledger, customers, receivables, projections>>

\* the staff lists the owner may send: nothing parseable, or rows as the
\* parser and the paymentDay defaults of handleStaffStep make them
StaffAnswers ==
    { N \in SUBSET {"Ramu", "Mohan"} : Cardinality(N) <= MaxStaff }

handleStaffStep ==
    /\ onboardingStep = "STAFF"
    /\ \/ \* "skip"
          /\ onboardingStep' = "PENDING"
          /\ staff' = staff
       \/ \E N \in StaffAnswers :
            /\ staff' = [n \in DOMAIN staff \cup N |->
                           IF n \in N THEN StaffPool[n] ELSE staff[n]]
            /\ onboardingStep' = IF DOMAIN staff \cup N = {} THEN "STAFF" ELSE "PENDING"
    /\ out' = Reply("handleStaffStep", <<>>, <<>>, <<>>)
    /\ UNCHANGED <<inflight, simulator, owners, job, today, currentCash, ledger, customers, receivables, projections>>

\* the "Name Amount" lines of a pending-payments answer
PendingAnswers ==
    { << >>,
      << [name |-> "Kumar", amount |-> 8000] >>,
      << [name |-> "Sharma", amount |-> 5000], [name |-> "Singh", amount |-> 0] >> }

RECURSIVE AddPending(_, _, _)
AddPending(db, lines, now) ==
    IF lines = <<>> THEN db
    ELSE LET custs == Append(db.customers, CustomerRow(Head(lines).name, <<>>, <<>>))
             rcv == Append(db.receivables,
                           ReceivableRow(Len(custs), Head(lines).amount, 0, "pending", now))
         IN AddPending([customers |-> custs, receivables |-> rcv], Tail(lines), now)

handlePending ==
    /\ onboardingStep = "PENDING"
    /\ \/ \* "skip"
          /\ onboardingStep' = "COMPLETE"
          /\ UNCHANGED <<customers, receivables>>
       \/ \E lines \in PendingAnswers :
            LET db == AddPending([customers |-> customers, receivables |-> receivables],
                                 lines, today)
            IN /\ customers' = db.customers
               /\ receivables' = db.receivables
               /\ onboardingStep' = IF lines = <<>> THEN "PENDING" ELSE "COMPLETE"
    /\ out' = Reply("handlePending", <<>>, <<>>, <<>>)
    /\ UNCHANGED <<inflight, simulator, owners, job, today, currentCash, staff, ledger, projections>>

---------------------------------------------------------------------------
(* POST /api/seed: the demo owner's data is deleted and created afresh.    *)
(* Of the values of Math.random() the least and the greatest are taken,    *)
(* the same for the seven income rows and the same for the expense rows.   *)

SeedStaff ==
    [ n \in {"Ramu", "Sita", "Bunty"} |-> StaffPool[n] ]

SeedCustomers ==
    << CustomerRow("TechPark Office", <<85>>, <<>>), CustomerRow("Sharma Ji", <<70>>, <<>>),
       CustomerRow("Kumar Family", <<90>>, <<>>), CustomerRow("ABC Office", <<60>>, <<>>),
       CustomerRow("Singh Sahab", <<75>>, <<>>) >>

SeedReceivables(now) ==
    << ReceivableRow(1, 12000, 0, "pending", now - 5),
       ReceivableRow(2, 5000, 0, "pending", now - 12),
       ReceivableRow(3, 8000, 3000, "partial", now - 8),
       ReceivableRow(4, 15000, 0, "pending", now - 18),
       ReceivableRow(5, 3000, 0, "pending", now - 3) >>

SeedTxn(type, amount, day) == [type |-> type, amount |-> amount, day |-> day, via |-> "seed"]

SeedTransactions(now, rIncome, rExpense) ==
    LET rows == UNION { { SeedTxn("income",
                                  (IF isWeekend(now - i) THEN 3000 ELSE 5000) + rIncome,
                                  now - i),
                          SeedTxn("expense", 800 + rExpense, now - i) } : i \in 1..7 }
    IN SetToBag(rows)

SeedFlags(projectedCash, salaryDue) ==
    (IF projectedCash < 0 THEN {"negative"} ELSE {})
    \cup (IF salaryDue > 0 THEN {"salary_due"} ELSE {})

SeedDay(i, running, now) ==
    LET date == now + i
        expectedIn == 4500
        salaryDue == IF getDate(date) = 1 THEN 16000 ELSE 0
        expectedOut == 1200 + salaryDue
        projectedCash == running + expectedIn - expectedOut
    IN [ i |-> i, date |-> date,
         runningCash |-> projectedCash, scale |-> 1,
         salaryAmount |-> salaryDue,
         due |-> {},
         dailyExpenses |-> 1200,
         projectedCash |-> Round(projectedCash, 1),
         expectedIn |-> expectedIn,
         expectedOut |-> expectedOut,
         commitments |-> {},
         confidence |-> IF i < 3 THEN "high" ELSE "medium",
         flags |-> SeedFlags(projectedCash, salaryDue),
         generatedAt |-> now ]

RECURSIVE SeedLoop(_, _, _, _)
SeedLoop(i, n, running, now) ==
    IF i >= n THEN <<>>
    ELSE LET row == SeedDay(i, running, now)
         IN <<row>> \o SeedLoop(i + 1, n, row.runningCash, now)

seedPOST ==
    /\ \E r \in { <<0, 0>>, <<499, 299>> } :
         ledger' = SeedTransactions(today, r[1], r[2])
    /\ currentCash' = 28500
    /\ onboardingStep' = "COMPLETE"
    /\ staff' = SeedStaff
    /\ customers' = SeedCustomers
    /\ receivables' = SeedReceivables(today)
    /\ LET rows == SeedLoop(0, 7, 28500, today)
       IN /\ projections' = Upsert(NoRows, rows)
          /\ out' = [op |-> "seedPOST", day |-> today, cash |-> 28500, staff |-> SeedStaff,
                     rows |-> rows, next3Days |-> <<>>, payments |-> <<>>,
                     health |-> <<>>, alerts |-> <<>>]
    /\ UNCHANGED <<inflight, simulator, owners, job, today>>

---------------------------------------------------------------------------
(* The seed script (prisma seed, main): the demo owner's data is deleted   *)
(* and created afresh, with 14 days of history.  Of the values of          *)
(* Math.random() the least and the greatest are taken, the same each day.  *)

MainCustomers ==
    << CustomerRow("TechPark Office", <<85>>, <<5>>), CustomerRow("Sharma Ji", <<70>>, <<10>>),
       CustomerRow("Kumar Family", <<90>>, <<3>>), CustomerRow("ABC Office", <<60>>, <<14>>),
       CustomerRow("Singh Sahab", <<75>>, <<7>>) >>

\* the rows pushed for the day i days ago
MainDayTxns(now, i, variance, rSupplies, rUtilities) ==
    LET date == now - i
        baseRevenue == IF isWeekend(date) THEN 3000 ELSE 5000
    IN SetToBag({ SeedTxn("income", baseRevenue + variance, date) })
       (+) SetToBag({ SeedTxn("expense", 800 + rSupplies, date) })
       (+) SetToBag({ SeedTxn("expense", 100 + rUtilities, date) })
       (+) (IF i % 3 = 0 THEN SetToBag({ SeedTxn("expense", 200, date) }) ELSE EmptyBag)
       (+) (IF getDay(date) # 0 /\ i % 2 = 0
            THEN SetToBag({ SeedTxn("salary", 500, date) }) ELSE EmptyBag)

RECURSIVE MainHistory(_, _, _, _, _)
MainHistory(now, i, variance, rSupplies, rUtilities) ==
    IF i < 1 THEN EmptyBag
    ELSE MainDayTxns(now, i, variance, rSupplies, rUtilities)
         (+) MainHistory(now, i - 1, variance, rSupplies, rUtilities)

MainTransactions(now, variance, rSupplies, rUtilities) ==
    MainHistory(now, 14, variance, rSupplies, rUtilities)
    (+) SetToBag({ SeedTxn("income", 8000, now - 10) })
    (+) SetToBag({ SeedTxn("income", 3000, now - 4) })
    (+) SetToBag({ SeedTxn("advance", 2000, now - 7) })

MainFlags(projectedCash, salaryDue, avgDailyExpense) ==
    (IF projectedCash < 0 THEN {"negative"} ELSE {})
    \cup (IF salaryDue > 0 THEN {"salary_due"} ELSE {})
    \cup (IF projectedCash < avgDailyExpense * 3 /\ projectedCash >= 0
          THEN {"low_cash"} ELSE {})

MainConfidence(i) == IF i < 3 THEN "high" ELSE IF i < 5 THEN "medium" ELSE "low"

MainDay(i, running, now) ==
    LET date == now + i
        avgDailyIncome == 4500
        avgDailyExpense == 1200
        expectedIn == IF isWeekend(date) THEN Round(avgDailyIncome * 6, 10)
                      ELSE avgDailyIncome
        salaryDue == IF getDate(date) = 1 THEN 10000 + 8000 - 2000 ELSE 0
        expectedOut == avgDailyExpense + salaryDue
        projectedCash == running + expectedIn - expectedOut
    IN [ i |-> i, date |-> date,
         runningCash |-> projectedCash, scale |-> 1,
         salaryAmount |-> salaryDue,
         due |-> {},
         dailyExpenses |-> avgDailyExpense,
         projectedCash |-> Round(projectedCash, 1),
         expectedIn |-> expectedIn,
         expectedOut |-> expectedOut,
         commitments |-> IF salaryDue > 0
                         THEN { [name |-> "Ramu", amount |-> 10000],
                                [name |-> "Sita", amount |-> 6000] }
                         ELSE {},
         confidence |-> MainConfidence(i),
         flags |-> MainFlags(projectedCash, salaryDue, avgDailyExpense),
         generatedAt |-> now ]

RECURSIVE MainLoop(_, _, _, _)
MainLoop(i, n, running, now) ==
    IF i >= n THEN <<>>
    ELSE LET row == MainDay(i, running, now)
         IN <<row>> \o MainLoop(i + 1, n, row.runningCash, now)

seedMain ==
    /\ \E r \in { <<-500, 0, 0>>, <<499, 399, 49>> } :
         ledger' = MainTransactions(today, r[1], r[2], r[3])
    /\ currentCash' = 28500
    /\ onboardingStep' = "COMPLETE"
    /\ staff' = SeedStaff
    /\ customers' = MainCustomers
    /\ receivables' = SeedReceivables(today)
    /\ LET rows == MainLoop(0, 7, 28500, today)
       IN /\ projections' = Upsert(NoRows, rows)
          /\ out' = [op |-> "seedMain", day |-> today, cash |-> 28500, staff |-> SeedStaff,
                     rows |-> rows, next3Days |-> <<>>, payments |-> <<>>,
                     health |-> <<>>, alerts |-> <<>>]
    /\ UNCHANGED <<inflight, simulator, owners, job, today>>

---------------------------------------------------------------------------
(* calculateHealthScore (lib/briefs.ts). Scores are exact fractions        *)
(* [n, d] with d > 0, in lowest terms.                                      *)

RECURSIVE GCD(_, _)
GCD(a, b) == IF b = 0 THEN a ELSE GCD(b, a % b)

Abs(a) == IF a < 0 THEN -a ELSE a

Frac(n, d) ==
    LET g == GCD(Abs(n), d)
    IN [n |-> n \div g, d |-> d \div g]

FracAdd(x, y) == Frac(x.n * y.d + y.n * x.d, x.d * y.d)
FracTimes(k, x) == Frac(k * x.n, x.d)

\* a plausible slip: Math.min(100, x) without the Math.max(0, ...)
ClampTop(x) == IF x.n > 100 * x.d THEN Frac(100, 1) ELSE x

\* Math.min(100, Math.max(0, x))
Clamp(x) ==
    IF x.n < 0 THEN Frac(0, 1)
    ELSE IF x.n > 100 * x.d THEN Frac(100, 1)
    ELSE x

\* new Date(y, m - 1, 1); December 2024, before day 0, has 31 days
StartOfLastMonth(now) ==
    IF getMonth(now) = 1 THEN -31 ELSE StartOfMonth(StartOfMonth(now) - 1)

\* createdAt >= startOfMonth
ThisMonthTxns(txns, now) == { t \in BagToSet(txns) : t.day >= StartOfMonth(now) }

\* startOfLastMonth <= createdAt <= endOfLastMonth, where new Date(y, m, 0) is
\* midnight at the start of last month's last day: rows of that day are later
LastMonthTxns(txns, now) ==
    { t \in BagToSet(txns) : /\ t.day >= StartOfLastMonth(now)
                             /\ t.day < StartOfMonth(now) - 1 }

Income(txns, S) == SumRows(txns, { t \in S : t.type = "income" })
Expenses(txns, S) == SumRows(txns, { t \in S : t.type # "income" })

PaidReceivables(rcv) == { i \in 1..Len(rcv) : rcv[i].status = "paid" }

CollectionDays(r) == IF r.paidAt # <<>> THEN r.paidAt[1] - r.createdAt ELSE 30

RECURSIVE SumCollectionDays(_, _)
SumCollectionDays(rcv, S) ==
    IF S = {} THEN 0
    ELSE LET i == CHOOSE x \in S : TRUE
         IN CollectionDays(rcv[i]) + SumCollectionDays(rcv, S \ {i})

\* a plausible slip: the fallback of an unpaid receivable used for "none paid"
AvgCollectionDays30(rcv) ==
    IF PaidReceivables(rcv) # {}
    THEN Frac(SumCollectionDays(rcv, PaidReceivables(rcv)), Cardinality(PaidReceivables(rcv)))
    ELSE Frac(30, 1)

AvgCollectionDays(rcv) ==
    IF PaidReceivables(rcv) # {}
    THEN Frac(SumCollectionDays(rcv, PaidReceivables(rcv)), Cardinality(PaidReceivables(rcv)))
    ELSE Frac(15, 1)

RunwayDays(cash, thisMonthExpenses, now) ==
    IF thisMonthExpenses > 0
    THEN Floor(cash * Max(getDate(now), 1), thisMonthExpenses)
    ELSE 30

CashRunwayScore(runwayDays) == Clamp(Frac(runwayDays * 333, 100))

ProfitMargin(income, expenses) ==
    IF income > 0 THEN Frac((income - expenses) * 100, income) ELSE Frac(0, 1)

ProfitMarginScore(profitMargin) == Clamp(Frac(profitMargin.n * 5, profitMargin.d * 2))

CollectionScore(avgDays) ==
    Clamp(Frac(100 * 100 * avgDays.d - 333 * avgDays.n, 100 * avgDays.d))

ExpenseRatio(thisMonthExpenses, lastMonthExpenses) ==
    IF lastMonthExpenses > 0 THEN Frac(thisMonthExpenses, lastMonthExpenses) ELSE Frac(1, 1)

ExpenseControlScore(ratio) == Clamp(Frac(100 * ratio.d - (ratio.n - ratio.d) * 100, ratio.d))

GrowthRate(thisMonthIncome, lastMonthIncome) ==
    IF lastMonthIncome > 0
    THEN Frac((thisMonthIncome - lastMonthIncome) * 100, lastMonthIncome)
    ELSE Frac(0, 1)

GrowthScore(growthRate) == Clamp(Frac(50 * growthRate.d + growthRate.n * 2, growthRate.d))

\* a plausible slip: a weight changed without rebalancing the others
WeightsSkewed ==
    [cashRunway |-> 30, profitMargin |-> 25, collectionSpeed |-> 15,
     expenseControl |-> 15, growthTrend |-> 20]

\* the weights 0.25, 0.25, 0.15, 0.15, 0.20, in hundredths
Weights ==
    [cashRunway |-> 25, profitMargin |-> 25, collectionSpeed |-> 15,
     expenseControl |-> 15, growthTrend |-> 20]

WeightedScore(cashRunway, profitMargin, collection, expenseControl, growth) ==
    LET sum == FracAdd(FracTimes(Weights.cashRunway, cashRunway),
               FracAdd(FracTimes(Weights.profitMargin, profitMargin),
               FracAdd(FracTimes(Weights.collectionSpeed, collection),
               FracAdd(FracTimes(Weights.expenseControl, expenseControl),
                       FracTimes(Weights.growthTrend, growth)))))
    IN Round(sum.n, sum.d * 100)

\* a plausible slip: the bands exclusive at their lower bound
HealthStatusStrict(weightedScore) ==
    IF weightedScore > 80 THEN "excellent"
    ELSE IF weightedScore > 60 THEN "good"
    ELSE IF weightedScore > 40 THEN "caution"
    ELSE "critical"

HealthStatus(weightedScore) ==
    IF weightedScore >= 80 THEN "excellent"
    ELSE IF weightedScore >= 60 THEN "good"
    ELSE IF weightedScore >= 40 THEN "caution"
    ELSE "critical"

HealthScore(cash, txns, rcv, now) ==
    LET thisMonthIncome == Income(txns, ThisMonthTxns(txns, now))
        thisMonthExpenses == Expenses(txns, ThisMonthTxns(txns, now))
        lastMonthIncome == Income(txns, LastMonthTxns(txns, now))
        lastMonthExpenses == Expenses(txns, LastMonthTxns(txns, now))
        avgCollectionDays == AvgCollectionDays(rcv)
        runwayDays == RunwayDays(cash, thisMonthExpenses, now)
        cashRunwayScore == CashRunwayScore(runwayDays)
        profitMargin == ProfitMargin(thisMonthIncome, thisMonthExpenses)
        profitMarginScore == ProfitMarginScore(profitMargin)
        collectionScore == CollectionScore(avgCollectionDays)
        expenseRatio == ExpenseRatio(thisMonthExpenses, lastMonthExpenses)
        expenseControlScore == ExpenseControlScore(expenseRatio)
        growthRate == GrowthRate(thisMonthIncome, lastMonthIncome)
        growthScore == GrowthScore(growthRate)
        weightedScore == WeightedScore(cashRunwayScore, profitMarginScore, collectionScore,
                                       expenseControlScore, growthScore)
    IN [ score |-> weightedScore,
         status |-> HealthStatus(weightedScore),
         raw |-> [ cashRunway |-> cashRunwayScore, profitMargin |-> profitMarginScore,
                   collectionSpeed |-> collectionScore,
                   expenseControl |-> expenseControlScore, growthTrend |-> growthScore ],
         components |->
           [ cashRunway |-> [score |-> Round(cashRunwayScore.n, cashRunwayScore.d),
                             days |-> runwayDays],
             profitMargin |-> [score |-> Round(profitMarginScore.n, profitMarginScore.d),
                               percentage |-> Round(profitMargin.n, profitMargin.d)],
             collectionSpeed |-> [score |-> Round(collectionScore.n, collectionScore.d),
                                  avgDays |-> Round(avgCollectionDays.n, avgCollectionDays.d)],
             expenseControl |-> [score |-> Round(expenseControlScore.n, expenseControlScore.d),
                                 vsAverage |-> Round((expenseRatio.n - expenseRatio.d) * 100,
                                                     expenseRatio.d)],
             growthTrend |-> [score |-> Round(growthScore.n, growthScore.d),
                              percentage |-> Round(growthRate.n, growthRate.d)] ],
         inputs |-> [ thisMonthIncome |-> thisMonthIncome,
                      thisMonthExpenses |-> thisMonthExpenses,
                      lastMonthIncome |-> lastMonthIncome,
                      lastMonthExpenses |-> lastMonthExpenses,
                      paid |-> Cardinality(PaidReceivables(rcv)) ] ]

calculateHealthScore ==
    /\ out' = [Reply("calculateHealthScore", <<>>, <<>>, <<>>) EXCEPT
                 !.health = <<HealthScore(currentCash, ledger, receivables, today)>>]
    /\ UNCHANGED <<inflight, simulator, owners, job, today, currentCash, staff, onboardingStep, ledger, customers,
                   receivables, projections>>

---------------------------------------------------------------------------
(* The clock *)

Tick ==
    /\ today < MaxDay
    /\ today' = today + 1
    /\ UNCHANGED <<inflight, simulator, owners, job, currentCash, staff, onboardingStep, ledger, customers, receivables, projections, out>>

---------------------------------------------------------------------------
(* Projection engine: the producers run over the ledgers, staff and cash   *)
(* an owner can have.                                                      *)

Txn(type, amount, day) == [type |-> type, amount |-> amount, day |-> day, via |-> "history"]

StaffChoices ==
    { [ n \in N |-> StaffPool[n] ] :
        N \in { M \in SUBSET DOMAIN StaffPool : Cardinality(M) <= MaxStaff } }

LedgerChoices ==
    { EmptyBag,
      SetToBag({ Txn("income", 15, 20) }),
      SetToBag({ Txn("income", 135000, 20), Txn("expense", 36000, 20) }),
      SetToBag({ Txn("expense", 3000, 20), Txn("salary", 500, 20), Txn("advance", 2000, 20) }) }

InitProj ==
    /\ today = 27
    /\ currentCash \in { -500, 0, 10100, 28500 }
    /\ staff \in StaffChoices
    /\ ledger \in LedgerChoices
    /\ onboardingStep = "COMPLETE"
    /\ customers = <<>>
    /\ receivables = <<>>
    /\ projections = NoRows
    /\ out = NoOut
    /\ owners = <<>>
    /\ job = NoJob
    /\ inflight = <<>>
    /\ simulator = NoTexts

NextProj ==
    \/ refreshProjections
    \/ handleProjectionQuery
    \/ getBusinessData
    \/ generateMorningBrief
    \/ Tick

SpecProj == InitProj /\ [][NextProj]_vars

---------------------------------------------------------------------------
(* The projection store: the demo owner's projections are refreshed day    *)
(* after day and read in between.                                          *)

InitStore ==
    /\ today = 26
    /\ currentCash \in {10100, 28500}
    /\ staff = SeedStaff
    /\ ledger \in LedgerChoices
    /\ onboardingStep = "COMPLETE"
    /\ customers = <<>>
    /\ receivables = <<>>
    /\ projections = NoRows
    /\ out = NoOut
    /\ owners = <<>>
    /\ job = NoJob
    /\ inflight = <<>>
    /\ simulator = NoTexts

NextStore == refreshProjections \/ refreshProjectionsThrows \/ getState \/ getCashForecast \/ Tick

SpecStore == InitStore /\ [][NextStore]_vars

---------------------------------------------------------------------------
(* Message handling: an owner created on first contact is onboarded and    *)
(* then logs transactions, while the demo data may be (re)seeded.          *)

Init ==
    /\ today = 27
    /\ currentCash = 0
    /\ staff = <<>>
    /\ onboardingStep = "START"
    /\ ledger = EmptyBag
    /\ customers = <<>>
    /\ receivables = <<>>
    /\ projections = NoRows
    /\ out = NoOut
    /\ owners = <<>>
    /\ job = NoJob
    /\ inflight = <<>>
    /\ simulator = NoTexts

Next ==
    \/ handleStart
    \/ handleName
    \/ handleCash
    \/ handleStaffStep
    \/ handlePending
    \/ handleTransaction
    \/ createReceivable
    \/ seedPOST
    \/ seedMain
    \/ Tick

Spec == Init /\ [][Next]_vars

---------------------------------------------------------------------------
(* The books of an onboarded owner: one receivable of some age is on the   *)
(* books of the demo customers, and payments are logged.                   *)

InitBooks ==
    /\ today = 27
    /\ currentCash = 28500
    /\ staff = SeedStaff
    /\ onboardingStep = "COMPLETE"
    /\ ledger = EmptyBag
    /\ customers = SeedCustomers
    /\ \E age \in {0, 6, 7, 8, 13, 14, 15, 40}, paid \in {0, 3000} :
         receivables = << ReceivableRow(3, 8000, paid,
                                        IF paid = 0 THEN "pending" ELSE "partial",
                                        27 - age) >>
    /\ projections = NoRows
    /\ out = NoOut
    /\ owners = <<>>
    /\ job = NoJob
    /\ inflight = <<>>
    /\ simulator = NoTexts

NextBooks == handleTransaction \/ Tick

SpecBooks == InitBooks /\ [][NextBooks]_vars

---------------------------------------------------------------------------
(* Health score: the books of an onboarded owner are drawn from bounded    *)
(* sets and scored on the 28th and the 29th of January.                    *)

HealthLedgers ==
    { EmptyBag,
      SetToBag({ Txn("income", 1000, 20), Txn("expense", 600, 20) }),
      SetToBag({ Txn("expense", 5000, 10), Txn("salary", 500, 12) }),
      SetToBag({ Txn("income", 500, 5), Txn("expense", 5000, 6),
                 Txn("income", 2000, -10), Txn("expense", 1000, -12) }),
      SetToBag({ Txn("income", 3000, 3), Txn("expense", 500, 4),
                 Txn("income", 1000, -20), Txn("expense", 1000, -1) }),
      SetToBag({ Txn("income", 900, 15), Txn("advance", 700, 15),
                 Txn("income", 1000, -31), Txn("expense", 300, -5) }) }

PaidRow(customerId, amount, createdAt, paidAt) ==
    [ReceivableRow(customerId, amount, amount, "paid", createdAt) EXCEPT !.paidAt = <<paidAt>>]

HealthReceivables ==
    { << >>,
      << ReceivableRow(1, 12000, 0, "pending", 22) >>,
      << PaidRow(3, 8000, 22, 22) >>,
      << PaidRow(1, 12000, 0, 10) >>,
      << PaidRow(1, 12000, 0, 20) >>,
      << PaidRow(3, 8000, -20, 20) >>,
      << PaidRow(1, 12000, 0, 5), PaidRow(2, 5000, 3, 10),
         ReceivableRow(3, 8000, 3000, "partial", 19) >> }

InitHealth ==
    /\ today = 27
    /\ currentCash \in { -500, 0, 2000, 28500 }
    /\ staff = <<>>
    /\ onboardingStep = "COMPLETE"
    /\ ledger \in HealthLedgers
    /\ customers = SeedCustomers
    /\ receivables \in HealthReceivables
    /\ projections = NoRows
    /\ out = NoOut
    /\ owners = <<>>
    /\ job = NoJob
    /\ inflight = <<>>
    /\ simulator = NoTexts

NextHealth == calculateHealthScore \/ Tick

SpecHealth == InitHealth /\ [][NextHealth]_vars

---------------------------------------------------------------------------
(* Salary alerts: the watch item of the morning brief and the reminder     *)
(* sent three days before a salary.                                        *)

\* salaryDay >= today ? salaryDay - today : 30 - today + salaryDay
daysUntil(paymentDay, currentDay) ==
    IF paymentDay >= currentDay THEN paymentDay - currentDay
    ELSE 30 - currentDay + paymentDay

\* s.salaryType === "monthly" && s.paymentDay: null and 0 are falsy
HasPaymentDay(s) ==
    s.salaryType = "monthly" /\ s.paymentDay # <<>> /\ s.paymentDay[1] # 0

\* getWatchItems: the staff whose salary is at most 5 days away, and the
\* "Salary in N days" item made of them
getWatchItems(st, cash, now) ==
    LET upcoming ==
            { e \in { [ name |-> n,
                        daysLeft |-> daysUntil(st[n].paymentDay[1], getDate(now)),
                        amount |-> st[n].salaryAmount - st[n].advanceBalance ] :
                      n \in { m \in DOMAIN st : HasPaymentDay(st[m]) } } :
                e.daysLeft <= 5 }
        total == SumAmount(upcoming)
        days == CHOOSE d \in { e.daysLeft : e \in upcoming } :
                    \A e \in upcoming : d <= e.daysLeft
    IN [ upcoming |-> upcoming,
         items |-> IF upcoming = {} THEN <<>>
                   ELSE << [ days |-> days, covered |-> ~(cash < total),
                             amount |-> IF cash < total THEN total - cash ELSE total ] >> ]

sendMorningBrief ==
    /\ onboardingStep = "COMPLETE"
    /\ out' = [Reply("sendMorningBrief", <<>>, <<>>, <<>>) EXCEPT
                 !.alerts = <<getWatchItems(staff, currentCash, today)>>]
    /\ UNCHANGED <<inflight, simulator, owners, job, today, currentCash, staff, onboardingStep, ledger, customers,
                   receivables, projections>>

sendSalaryReminder ==
    /\ onboardingStep = "COMPLETE"
    /\ LET currentDay == getDate(today)
           staffWithUpcomingSalary ==
               { n \in DOMAIN staff :
                   /\ HasPaymentDay(staff[n])
                   /\ daysUntil(staff[n].paymentDay[1], currentDay) = 3 }
           totalDue == SumAmount({ [name |-> n,
                                    amount |-> staff[n].salaryAmount - staff[n].advanceBalance] :
                                   n \in staffWithUpcomingSalary })
       IN out' = [Reply("sendSalaryReminder", <<>>, <<>>, <<>>) EXCEPT
                    !.alerts = << [ due |-> staffWithUpcomingSalary,
                                    sent |-> staffWithUpcomingSalary # {},
                                    totalDue |-> totalDue,
                                    shortfall |-> totalDue - currentCash ] >>]
    /\ UNCHANGED <<inflight, simulator, owners, job, today, currentCash, staff, onboardingStep, ledger, customers,
                   receivables, projections>>

InitAlerts ==
    /\ today \in 0..88      \* the alerts are sent on any day from 1 January to 30 March
    /\ currentCash \in {0, 28500}
    /\ staff \in StaffChoices
    /\ onboardingStep = "COMPLETE"
    /\ ledger = EmptyBag
    /\ customers = <<>>
    /\ receivables = <<>>
    /\ projections = NoRows
    /\ out = NoOut
    /\ owners = <<>>
    /\ job = NoJob
    /\ inflight = <<>>
    /\ simulator = NoTexts

NextAlerts == sendMorningBrief \/ sendSalaryReminder

SpecAlerts == InitAlerts /\ [][NextAlerts]_vars

---------------------------------------------------------------------------
(* Staff payments: a salary or an advance is recorded by the staff handler *)
(* of the message router or by the agent's tools.                          *)

\* what a message or a tool call names: a staff member (or nobody on the
\* team) and, when it holds digits, an amount
StaffMessages ==
    { [name |-> n, amount |-> a] :
        n \in {"Ramu", "Sita", "Bunty", "Nobody"}, a \in {<<>>, <<500>>, <<2000>>} }

\* findStaffInMessage / db.staff.findFirst({ name: { contains: staffName } })
FindStaff(st, name) == IF name \in DOMAIN st THEN <<name>> ELSE <<>>

\* the transaction row of a staff payment and the record of the payment:
\* who was paid and how much
Paid(op, type, name, amount) ==
    [ txn |-> [type |-> type, amount |-> amount, day |-> today, via |-> op],
      out |-> Reply(op, <<>>, <<>>, << [staff |-> name, amount |-> amount] >>) ]

handleSalaryPaid ==
    /\ onboardingStep = "COMPLETE"
    /\ Logged(ledger) < MaxTxns
    /\ \E m \in StaffMessages :
         LET found == FindStaff(staff, m.name)
             staffMember == staff[found[1]]
             salaryDue == staffMember.salaryAmount - staffMember.advanceBalance
             paidAmount == IF m.amount # <<>> THEN m.amount[1] ELSE salaryDue
         IN IF found = <<>> \/ currentCash < paidAmount
            THEN /\ out' = [Reply("handleSalaryPaid", <<>>, <<>>, <<>>) EXCEPT
                              !.alerts = IF found = <<>> THEN <<"which staff">>
                                         ELSE <<"shortfall", paidAmount>>]
                 /\ UNCHANGED <<ledger, currentCash, staff>>
            ELSE /\ ledger' = ledger (+) SetToBag({Paid("handleSalaryPaid", "salary", found[1], paidAmount).txn})
                 /\ currentCash' = currentCash - paidAmount
                 /\ staff' = [staff EXCEPT ![found[1]].advanceBalance = 0]
                 /\ out' = Paid("handleSalaryPaid", "salary", found[1], paidAmount).out
    /\ UNCHANGED <<inflight, simulator, owners, job, today, onboardingStep, customers, receivables, projections>>

\* a plausible slip: the advance is given without looking at the cash
handleAdvanceUnchecked ==
    /\ onboardingStep = "COMPLETE"
    /\ Logged(ledger) < MaxTxns
    /\ \E m \in StaffMessages :
         LET found == FindStaff(staff, m.name)
             staffMember == staff[found[1]]
             amount == m.amount[1]
             newAdvance == staffMember.advanceBalance + amount
         IN IF found = <<>> \/ m.amount = <<>>
            THEN /\ out' = [Reply("handleAdvance", <<>>, <<>>, <<>>) EXCEPT
                              !.alerts = IF found = <<>> THEN <<"which staff">>
                                         ELSE IF m.amount = <<>> THEN <<"how much">>
                                         ELSE <<"shortfall", amount>>]
                 /\ UNCHANGED <<ledger, currentCash, staff>>
            ELSE /\ ledger' = ledger (+) SetToBag({Paid("handleAdvance", "advance", found[1], amount).txn})
                 /\ staff' = [staff EXCEPT ![found[1]].advanceBalance = newAdvance]
                 /\ currentCash' = currentCash - amount
                 /\ out' = Paid("handleAdvance", "advance", found[1], amount).out
    /\ UNCHANGED <<inflight, simulator, owners, job, today, onboardingStep, customers, receivables, projections>>

handleAdvance ==
    /\ onboardingStep = "COMPLETE"
    /\ Logged(ledger) < MaxTxns
    /\ \E m \in StaffMessages :
         LET found == FindStaff(staff, m.name)
             staffMember == staff[found[1]]
             amount == m.amount[1]
             newAdvance == staffMember.advanceBalance + amount
         IN IF found = <<>> \/ m.amount = <<>> \/ currentCash < amount
            THEN /\ out' = [Reply("handleAdvance", <<>>, <<>>, <<>>) EXCEPT
                              !.alerts = IF found = <<>> THEN <<"which staff">>
                                         ELSE IF m.amount = <<>> THEN <<"how much">>
                                         ELSE <<"shortfall", amount>>]
                 /\ UNCHANGED <<ledger, currentCash, staff>>
            ELSE /\ ledger' = ledger (+) SetToBag({Paid("handleAdvance", "advance", found[1], amount).txn})
                 /\ staff' = [staff EXCEPT ![found[1]].advanceBalance = newAdvance]
                 /\ currentCash' = currentCash - amount
                 /\ out' = Paid("handleAdvance", "advance", found[1], amount).out
    /\ UNCHANGED <<inflight, simulator, owners, job, today, onboardingStep, customers, receivables, projections>>

\* the agent's paySalary tool
paySalary ==
    /\ onboardingStep = "COMPLETE"
    /\ Logged(ledger) < MaxTxns
    /\ \E m \in StaffMessages :
         LET found == FindStaff(staff, m.name)
             salaryAmount == IF m.amount # <<>> /\ m.amount[1] # 0
                             THEN m.amount[1] ELSE staff[found[1]].salaryAmount
         IN IF found = <<>>
            THEN /\ out' = Reply("paySalary", <<>>, <<>>, <<>>)
                 /\ UNCHANGED <<ledger, currentCash, staff>>
            ELSE /\ ledger' = ledger (+) SetToBag({Paid("paySalary", "salary", found[1], salaryAmount).txn})
                 /\ currentCash' = currentCash - salaryAmount
                 /\ out' = Paid("paySalary", "salary", found[1], salaryAmount).out
                 /\ UNCHANGED staff
    /\ UNCHANGED <<inflight, simulator, owners, job, today, onboardingStep, customers, receivables, projections>>

\* the agent's giveAdvance tool: the amount is required by its input schema
giveAdvance ==
    /\ onboardingStep = "COMPLETE"
    /\ Logged(ledger) < MaxTxns
    /\ \E m \in { x \in StaffMessages : x.amount # <<>> } :
         LET found == FindStaff(staff, m.name)
             amount == m.amount[1]
         IN IF found = <<>>
            THEN /\ out' = Reply("giveAdvance", <<>>, <<>>, <<>>)
                 /\ UNCHANGED <<ledger, currentCash, staff>>
            ELSE /\ staff' = [staff EXCEPT ![found[1]].advanceBalance = @ + amount]
                 /\ ledger' = ledger (+) SetToBag({Paid("giveAdvance", "advance", found[1], amount).txn})
                 /\ currentCash' = currentCash - amount
                 /\ out' = Paid("giveAdvance", "advance", found[1], amount).out
    /\ UNCHANGED <<inflight, simulator, owners, job, today, onboardingStep, customers, receivables, projections>>

\* the agent's logExpense tool
logExpense ==
    /\ onboardingStep = "COMPLETE"
    /\ Logged(ledger) < MaxTxns
    /\ \E amount \in {1200, 2000} :
         /\ ledger' = ledger (+) SetToBag({[type |-> "expense", amount |-> amount,
                                            day |-> today, via |-> "logExpense"]})
         /\ currentCash' = currentCash - amount
    /\ out' = Reply("logExpense", <<>>, <<>>, <<>>)
    /\ UNCHANGED <<inflight, simulator, owners, job, today, staff, onboardingStep, customers, receivables, projections>>

\* the agent's recordIncome tool: the customer is looked up by a part of the
\* name and created when none matches; no receivable is touched
recordIncome ==
    /\ onboardingStep = "COMPLETE"
    /\ Logged(ledger) < MaxTxns
    /\ \E amount \in {3000, 8000}, customerName \in {"", "Kumar", "Verma"} :
         /\ customers' =
                IF customerName = ""
                   \/ \E i \in 1..Len(customers) : Contains(customers[i].name, customerName)
                THEN customers
                ELSE Append(customers, CustomerRow(customerName, <<>>, <<>>))
         /\ ledger' = ledger (+) SetToBag({[type |-> "income", amount |-> amount,
                                            day |-> today, via |-> "recordIncome"]})
         /\ currentCash' = currentCash + amount
    /\ out' = Reply("recordIncome", <<>>, <<>>, <<>>)
    /\ UNCHANGED <<inflight, simulator, owners, job, today, staff, onboardingStep, receivables, projections>>

InitStaff ==
    /\ today = 27
    /\ currentCash \in {1000, 28500}
    /\ staff = SeedStaff
    /\ onboardingStep = "COMPLETE"
    /\ ledger = EmptyBag
    /\ customers = SeedCustomers
    /\ receivables = <<>>
    /\ projections = NoRows
    /\ out = NoOut
    /\ owners = <<>>
    /\ job = NoJob
    /\ inflight = <<>>
    /\ simulator = NoTexts

NextStaff ==
    \/ handleSalaryPaid
    \/ handleAdvance
    \/ paySalary
    \/ giveAdvance
    \/ handleTransaction
    \/ logExpense
    \/ recordIncome

SpecStaff == InitStaff /\ [][NextStaff]_vars

---------------------------------------------------------------------------
(* Scheduled tasks: a run reads the onboarded owners once and handles them *)
(* one after the other; handling an owner may throw at any await.          *)

MaxOwners == 3   \* most rows of the owner table

\* db.owner.findMany({ where: { onboardingStep: "COMPLETE" }, select: { id } })
CompleteOwners(table) ==
    LET found == SelectSeq(table, LAMBDA o : o.onboardingStep = "COMPLETE")
    IN [ k \in 1..Len(found) |-> found[k].id ]

\* the try block ran to its end for this owner
Handled(run, id) ==
    [run EXCEPT !.i = @ + 1, !.log = Append(@, [id |-> id, ok |-> TRUE])]

\* a plausible slip: the error is not caught and ends the loop
Rethrown(run, id) ==
    [run EXCEPT !.i = Len(run.queue) + 1, !.log = Append(@, [id |-> id, ok |-> FALSE])]

\* the catch block: the error is logged and the loop goes on
Caught(run, id) ==
    [run EXCEPT !.i = @ + 1, !.log = Append(@, [id |-> id, ok |-> FALSE])]

\* the rows the handling of one owner leaves behind: the three senders write
\* none, refreshProjections(owner.id) has made n upserts when it ends
OwnerEffect(table, task, id, n) ==
    [ k \in 1..Len(table) |->
        IF table[k].id # id \/ task # "projection-refresh" THEN table[k]
        ELSE [ table[k] EXCEPT !.projections =
                 Upsert(@, SubSeq(RefreshRows(table[k].currentCash, table[k].staff,
                                              EmptyBag, today), 1, n)) ] ]

\* run: async () => { const owners = await db.owner.findMany(...)
runTask ==
    /\ job.task = "none"
    /\ \E id \in {"morning-brief", "evening-wrap", "salary-reminder", "projection-refresh"} :
         job' = [ task |-> id, queue |-> CompleteOwners(owners), i |-> 1,
                  log |-> <<>>, result |-> <<>> ]
    /\ UNCHANGED <<inflight, simulator, owners, today, currentCash, staff, onboardingStep, ledger, customers,
                   receivables, projections, out>>

\* for (const owner of owners) { try { await ...(owner.id) } catch (error) { ... } }
forOwner ==
    /\ job.task # "none"
    /\ job.i <= Len(job.queue)
    /\ LET id == job.queue[job.i]
       IN \/ /\ job' = Handled(job, id)
             /\ owners' = OwnerEffect(owners, job.task, id, 30)
          \/ /\ job' = Caught(job, id)
             /\ \E n \in {0, 10} : owners' = OwnerEffect(owners, job.task, id, n)
    /\ UNCHANGED <<inflight, simulator, today, currentCash, staff, onboardingStep, ledger,
                   customers, receivables, projections, out>>

\* return { sent: owners.length }
returnTask ==
    /\ job.task # "none"
    /\ job.i > Len(job.queue)
    /\ job.result = <<>>
    /\ job' = [job EXCEPT !.result = <<Len(job.queue)>>]
    /\ UNCHANGED <<inflight, simulator, owners, today, currentCash, staff, onboardingStep, ledger, customers,
                   receivables, projections, out>>

InitJobs ==
    /\ today = 27
    /\ currentCash = 0
    /\ staff = <<>>
    /\ onboardingStep = "START"
    /\ ledger = EmptyBag
    /\ customers = <<>>
    /\ receivables = <<>>
    /\ projections = NoRows
    /\ out = NoOut
    /\ \E n \in 0..MaxOwners : \E steps \in [1..n -> {"COMPLETE", "STAFF"}] :
         owners = [ k \in 1..n |->
                      [ id |-> k, onboardingStep |-> steps[k], currentCash |-> 28500,
                        staff |-> SeedStaff, projections |-> NoRows ] ]
    /\ job = NoJob
    /\ inflight = <<>>
    /\ simulator = NoTexts

NextJobs == runTask \/ forOwner \/ returnTask

SpecJobs == InitJobs /\ [][NextJobs]_vars

---------------------------------------------------------------------------
(* Properties of the projection producers *)

RowsOf(run) == { run.rows[k] : k \in 1..Len(run.rows) }
Next3Of(run) == { run.next3Days[k] : k \in 1..Len(run.next3Days) }

\* the runs of the obligation scheduler with per-day flags
IsForecastRun == out.op \in {"refreshProjections", "generateProjections"}

\* C1: in a projection run the stored values satisfy
\* projectedCash[0] = currentCash + expectedIn[0] - expectedOut[0] and
\* projectedCash[i] = projectedCash[i-1] + expectedIn[i] - expectedOut[i] for i > 0.
C1_CashIdentity ==
    out.op = "refreshProjections" =>
        \A k \in 1..Len(out.rows) :
            out.rows[k].projectedCash =
                (IF k = 1 THEN out.cash ELSE out.rows[k - 1].projectedCash)
                + out.rows[k].expectedIn - out.rows[k].expectedOut

\* C2: a forecast day whose running cash is below zero carries the flag negative
\* and neither salary_due nor low_cash, whatever else holds that day.
C2_NegativeAlone ==
    /\ IsForecastRun =>
         \A r \in RowsOf(out) : r.runningCash < 0 => r.flags = {"negative"}
    /\ \A r \in Next3Of(out) : r.runningCash < 0 => r.flag = "negative"

\* C7: the amount due for a monthly staff member on the payment day is
\* max(0, salaryAmount - advanceBalance), so the salaries of a forecast day
\* never lower that day's expectedOut.
C7_AdvanceFlooredAtZero ==
    IsForecastRun =>
        \A r \in RowsOf(out) :
            /\ \A s \in r.due :
                 s.amount = Max(0, out.staff[s.name].salaryAmount
                                     - out.staff[s.name].advanceBalance)
            /\ r.salaryAmount >= 0

\* who the forecast day of row r counts as due
DueNames(r) == { s.name : s \in r.due }
MonthlyNames(st) == { n \in DOMAIN st : st[n].salaryType = "monthly" }

\* C8 as claimed: a monthly staff member is due on a forecast date iff the
\* date's day-of-month equals the paymentDay, an unset paymentDay counting as 1.
C8_DueIffPaymentDay ==
    IsForecastRun =>
        \A r \in RowsOf(out) : \A n \in MonthlyNames(out.staff) :
            n \in DueNames(r) <=>
                getDate(r.date) = (IF out.staff[n].paymentDay = <<>> THEN 1
                                   ELSE out.staff[n].paymentDay[1])

\* C8 as amended: ... an unset paymentDay or a paymentDay of 0 counting as 1;
\* on every other date the staff member adds nothing to the salaries due.
C8_DueIffPaymentDayOrDefault ==
    IsForecastRun =>
        \A r \in RowsOf(out) : \A n \in MonthlyNames(out.staff) :
            LET pd == out.staff[n].paymentDay
                day == IF pd = <<>> \/ pd[1] = 0 THEN 1 ELSE pd[1]
                without == [m \in DOMAIN out.staff \ {n} |-> out.staff[m]]
            IN /\ n \in DueNames(r) <=> getDate(r.date) = day
               /\ getDate(r.date) # day =>
                    r.salaryAmount =
                        SumAmount(SalariesDue(MonthlySalaries(without), getDate(r.date)))

\* a run in which one monthly staff member is due on the 28th, the payment day,
\* and another, whose paymentDay is 0, on the 1st
C8_Witness ==
    /\ IsForecastRun
    /\ \E r \in RowsOf(out) : \E s \in r.due :
         out.staff[s.name].paymentDay = <<28>> /\ getDate(r.date) = 28
    /\ \E r \in RowsOf(out) : \E s \in r.due :
         out.staff[s.name].paymentDay = <<0>> /\ getDate(r.date) = 1

\* C9: in every forward-looking projection the salaries due on a date come
\* from monthly staff only; daily staff are never a scheduled obligation.
C9_DailyStaffNeverDue ==
    \A r \in RowsOf(out) \cup Next3Of(out) :
        \A s \in r.due : out.staff[s.name].salaryType = "monthly"

\* C10: a forecast day carries at most one flag, the first that matches of
\* negative (cash < 0), salary_due (a salary is due), low_cash (cash below
\* three times the daily expense average).
C10_FirstMatchOnly ==
    IsForecastRun =>
        \A r \in RowsOf(out) :
            /\ Cardinality(r.flags) <= 1
            /\ "low_cash" \in r.flags <=>
                 (r.runningCash >= 0 /\ r.salaryAmount <= 0
                    /\ r.runningCash < 3 * r.dailyExpenses)
            /\ (r.salaryAmount > 0 /\ r.runningCash >= 0) => r.flags = {"salary_due"}

\* C3: every sub-score of calculateHealthScore, before and after rounding, and
\* the final weighted score lie in [0, 100]
InRange(x) == 0 <= x /\ x <= 100

C3_ScoresClamped ==
    out.op = "calculateHealthScore" =>
      LET h == out.health[1]
          names == {"cashRunway", "profitMargin", "collectionSpeed", "expenseControl",
                    "growthTrend"}
      IN /\ InRange(h.score)
         /\ \A c \in names :
              /\ InRange(h.components[c].score)
              /\ 0 <= h.raw[c].n /\ h.raw[c].n <= 100 * h.raw[c].d

\* scored with no income and with expenses ten times the income, with negative
\* cash and with no paid receivable
C3_Witness ==
    /\ out.op = "calculateHealthScore"
    /\ out.cash < 0
    /\ out.health[1].inputs.paid = 0
    /\ out.health[1].inputs.thisMonthExpenses >= 10 * out.health[1].inputs.thisMonthIncome
    /\ out.health[1].inputs.thisMonthExpenses > 0
    /\ out.health[1].components.cashRunway.days < 0

\* payments that updateReceivable applied to a receivable in the last message
Applied == { k \in 1..Len(out.payments) : out.payments[k].rid # 0 }

\* C4: once a receivable has status paid, no later payment from that customer
\* changes its amountPaid, status or paidAt (every step but a reseeding of the
\* demo data keeps the paid row as it is)
C4_PaidIsTerminal ==
    [][ \A i \in 1..Len(receivables) :
          (receivables[i].status = "paid" /\ out'.op \notin {"seedPOST", "seedMain"})
          => /\ i <= Len(receivables')
             /\ receivables'[i] = receivables[i] ]_vars

\* a customer whose receivable was paid on an earlier day pays again
C4_Witness ==
    /\ out.op = "handleTransaction"
    /\ \E k \in 1..Len(out.payments) : \E i \in 1..Len(receivables) :
         /\ receivables[i].customerId = out.payments[k].customerId
         /\ receivables[i].status = "paid"
         /\ receivables[i].paidAt # <<>>
         /\ receivables[i].paidAt[1] < out.day

\* C5: a payment p on an open receivable (amount A, amountPaid q) makes it
\* paid, with paidAt set and amountPaid exactly A, when q + p >= A, and
\* partial with amountPaid q + p otherwise
C5_PaymentApplied ==
    \A k \in Applied :
      LET p == out.payments[k].amount
          r == out.payments[k].before[1]
          a == out.payments[k].after[1]
      IN /\ IsOpen(r)
         /\ IF r.amountPaid + p >= r.amount
            THEN a.status = "paid" /\ a.paidAt = <<out.day>> /\ a.amountPaid = r.amount
            ELSE a.status = "partial" /\ a.amountPaid = r.amountPaid + p /\ a.paidAt = r.paidAt
         /\ a.amount = r.amount /\ a.customerId = r.customerId /\ a.createdAt = r.createdAt
         /\ (k = Len(out.payments) => receivables[out.payments[k].rid] = a)

\* the scenario A = 8000, q = 3000, p = 6000, and a payment that leaves a rest
C5_Witness ==
    /\ \E k \in Applied :
         /\ out.payments[k].before[1].amount = 8000
         /\ out.payments[k].before[1].amountPaid = 3000
         /\ out.payments[k].amount = 6000
         /\ receivables[out.payments[k].rid].amountPaid = 8000
         /\ receivables[out.payments[k].rid].status = "paid"
    /\ \E k \in Applied : out.payments[k].after[1].status = "partial"

\* C6: every stored receivable's status is consistent with its amounts:
\* pending implies amountPaid = 0, partial implies 0 < amountPaid < amount,
\* paid implies amountPaid = amount
C6_StatusMatchesAmounts ==
    \A i \in 1..Len(receivables) :
      LET r == receivables[i]
      IN /\ r.status = "pending" => r.amountPaid = 0
         /\ r.status = "partial" => (0 < r.amountPaid /\ r.amountPaid < r.amount)
         /\ r.status = "paid" => r.amountPaid = r.amount
         /\ r.amountPaid <= r.amount

\* C11: in every stored forecast series the day at horizon index i has
\* confidence high for i in 0..2, medium for i in 3..6 and low for i > 6
ConfidenceBand(i) == IF i <= 2 THEN "high" ELSE IF i <= 6 THEN "medium" ELSE "low"

IsStoredRun == out.op \in {"refreshProjections", "seedPOST", "seedMain"}

C11_ConfidenceBands ==
    IsStoredRun =>
        \A r \in RowsOf(out) :
            /\ r.confidence = ConfidenceBand(r.i)
            /\ projections[r.date].confidence = ConfidenceBand(r.date - out.day)

\* the run of C12: 7 days or more from the 28th of January, cash 28500, daily
\* averages 4500 in and 1200 out, one monthly staff member (10000, day 1, no advance)
IsScenario12 ==
    /\ IsForecastRun
    /\ out.day = 27 /\ today = 27
    /\ out.cash = 28500
    /\ DailyIncome(ledger, 27) = 4500 * Scale
    /\ DailyExpenses(ledger, 27) = 1200 * Scale
    /\ DOMAIN out.staff = {"Ramu"}
    /\ out.staff["Ramu"] = StaffRow("monthly", 10000, <<1>>, 0)

\* C12: in that run the projected cash stays positive for the first 3 days,
\* and salary_due appears on the 5th day of the run, the 1st of February, with
\* 10000 due on that day and on no other of the 7 days
C12_SalaryDueOnRollover ==
    IsScenario12 =>
        /\ \A k \in 1..3 : out.rows[k].runningCash > 0 /\ out.rows[k].flags = {}
        /\ \A k \in 1..7 :
             /\ "salary_due" \in out.rows[k].flags <=> k = 5
             /\ out.rows[k].salaryAmount = (IF k = 5 THEN 10000 ELSE 0)
        /\ out.rows[5].flags = {"salary_due"}

C12_Witness ==
    /\ IsScenario12
    /\ out.op = "generateProjections"
    /\ out.rows[5].cash = 36350
    /\ out.rows[5].flags = {"salary_due"}

\* C13: the daily expense average of a projection is the sum of all expense,
\* salary and advance amounts in the 30-day window divided by 30 (here in
\* 1/Scale rupee: 10 * sum), and the daily income average is the sum of the
\* income amounts divided by 30
C13_AveragesOverFixedWindow ==
    (IsForecastRun /\ out.day = today) =>
        \A r \in RowsOf(out) :
            /\ r.dailyExpenses =
                 10 * SumRows(ledger, { t \in InWindow(ledger, today) :
                                          t.type \in {"expense", "salary", "advance"} })
            /\ DailyIncome(ledger, today) =
                 10 * SumRows(ledger, { t \in InWindow(ledger, today) : t.type = "income" })

\* C14: the status returned with a health score is excellent iff score >= 80,
\* good iff 60 <= score < 80, caution iff 40 <= score < 60, critical iff score < 40
C14_StatusBands ==
    out.op = "calculateHealthScore" =>
      LET h == out.health[1]
      IN /\ h.status = "excellent" <=> h.score >= 80
         /\ h.status = "good" <=> (60 <= h.score /\ h.score < 80)
         /\ h.status = "caution" <=> (40 <= h.score /\ h.score < 60)
         /\ h.status = "critical" <=> h.score < 40

\* a score on the lower bound of a band
C14_Witness ==
    /\ out.op = "calculateHealthScore"
    /\ out.health[1].score = 60
    /\ out.health[1].status = "good"

\* the five sub-scores before rounding
SubScores == {"cashRunway", "profitMargin", "collectionSpeed", "expenseControl", "growthTrend"}

\* C15: the five weights sum to exactly 1, so that five sub-scores all equal
\* to s yield the final score round(s)
C15_WeightsSumToOne ==
    /\ Weights.cashRunway + Weights.profitMargin + Weights.collectionSpeed
         + Weights.expenseControl + Weights.growthTrend = 100
    /\ out.op = "calculateHealthScore" =>
         LET raw == out.health[1].raw
         IN (\A c \in SubScores : raw[c] = raw.cashRunway)
            => out.health[1].score = Round(raw.cashRunway.n, raw.cashRunway.d)

\* all five sub-scores at 100
C15_Witness ==
    /\ out.op = "calculateHealthScore"
    /\ \A c \in SubScores : out.health[1].raw[c] = Frac(100, 1)
    /\ out.health[1].score = 100

\* C16: the fallbacks of calculateHealthScore: no income this month gives a
\* profitMargin sub-score of 0, no income last month a growthTrend sub-score of
\* 50, no expenses last month an expense ratio of 1, no expenses this month a
\* runway of 30 days, no paid receivable an average collection time of 15 days
C16_Fallbacks ==
    out.op = "calculateHealthScore" =>
      LET h == out.health[1]
      IN /\ h.inputs.thisMonthIncome = 0 => h.raw.profitMargin = Frac(0, 1)
         /\ h.inputs.lastMonthIncome = 0 => h.raw.growthTrend = Frac(50, 1)
         /\ h.inputs.lastMonthExpenses = 0 =>
              (h.components.expenseControl.vsAverage = 0
                 /\ h.raw.expenseControl = Frac(100, 1))
         /\ h.inputs.thisMonthExpenses = 0 => h.components.cashRunway.days = 30
         /\ h.inputs.paid = 0 => h.components.collectionSpeed.avgDays = 15

\* an owner with an empty ledger and no receivable is scored
C16_Witness ==
    /\ out.op = "calculateHealthScore"
    /\ out.health[1].inputs = [thisMonthIncome |-> 0, thisMonthExpenses |-> 0,
                               lastMonthIncome |-> 0, lastMonthExpenses |-> 0, paid |-> 0]
    /\ out.health[1].components.cashRunway.days = 30
    /\ out.health[1].components.collectionSpeed.avgDays = 15

\* the payments of run that updateReceivable applied for customer c
AppliedFor(run, c) ==
    { k \in 1..Len(run.payments) :
        run.payments[k].rid # 0 /\ run.payments[k].customerId = c }

Last(S) == CHOOSE k \in S : \A j \in S : j <= k

\* the whole days between the creation of the receivable and payment k of run
DaysToPay(run, k) == run.day - run.payments[k].before[1].createdAt

Bucket(days) == IF days <= 7 THEN 80 ELSE IF days <= 14 THEN 60 ELSE 40

\* C17: the reliability score a payment writes for a customer is 80 when the
\* receivable is at most 7 whole days old, 60 when 8 to 14, 40 when 15 or more,
\* and a customer's score changes in no other way
C17_ReliabilityBuckets ==
    [][ \A c \in 1..Len(customers) :
          IF out' # out /\ AppliedFor(out', c) # {}
          THEN customers'[c].reliabilityScore =
                 << Bucket(DaysToPay(out', Last(AppliedFor(out', c)))) >>
          ELSE customers'[c].reliabilityScore = customers[c].reliabilityScore ]_vars

\* a payment on a receivable exactly 7 days old
C17_Witness ==
    /\ out.op = "handleTransaction"
    /\ AppliedFor(out, 3) # {}
    /\ DaysToPay(out, Last(AppliedFor(out, 3))) = 7
    /\ customers[3].reliabilityScore = <<80>>
    /\ customers[3].avgDaysToPay = <<7>>

---------------------------------------------------------------------------
(* Scheduled tasks *)

AttemptedIds(run) == [ k \in 1..Len(run.log) |-> run.log[k].id ]

\* C18: in a run of a scheduled task the owners handled so far are the first
\* onboarded owners of the table, in order and each once, whichever of them
\* failed; and a run that has returned has handled every onboarded owner
C18_EveryOwnerAttempted ==
    /\ job.task # "none" =>
         /\ Len(job.log) <= Len(CompleteOwners(owners))
         /\ AttemptedIds(job) = SubSeq(CompleteOwners(owners), 1, Len(job.log))
    /\ job.result # <<>> => AttemptedIds(job) = CompleteOwners(owners)

\* a projection refresh that has returned after the first and the third owner
\* failed, with the second owner's projections stored
C18_Witness ==
    /\ job.result # <<>>
    /\ job.task = "projection-refresh"
    /\ Len(job.log) = 3
    /\ ~job.log[1].ok
    /\ job.log[2].ok
    /\ ~job.log[3].ok
    /\ Cardinality(DOMAIN owners[job.log[2].id].projections) = 30

---------------------------------------------------------------------------
(* Staff payments *)

SalaryOps == {"handleSalaryPaid", "paySalary"}
AdvanceOps == {"handleAdvance", "giveAdvance"}

\* C19: after a salary payment to a staff member is recorded, by the staff
\* handler or by the paySalary tool, that member's advanceBalance is 0; after
\* an advance of amount a is recorded, the advanceBalance is a more than before
C19_AdvanceAccounting ==
    \A k \in 1..Len(out.payments) :
        LET name == out.payments[k].staff
        IN /\ out.op \in SalaryOps => staff[name].advanceBalance = 0
           /\ out.op \in AdvanceOps =>
                staff[name].advanceBalance =
                    out.staff[name].advanceBalance + out.payments[k].amount

---------------------------------------------------------------------------
(* Salary alerts *)

\* the calendar days from now to the next day whose day of the month is paymentDay
CalendarDaysUntil(paymentDay, now) ==
    CHOOSE k \in 0..31 : /\ getDate(now + k) = paymentDay
                         /\ \A j \in 0..(k - 1) : getDate(now + j) # paymentDay

\* days-until with the length of the current month
DaysUntilInMonth(paymentDay, now) ==
    IF paymentDay >= getDate(now) THEN paymentDay - getDate(now)
    ELSE MonthLens[getMonth(now)] - getDate(now) + paymentDay

WithPaymentDay(st) == { n \in DOMAIN st : HasPaymentDay(st[n]) }

\* C20: the days-until of the salary alerts is paymentDay - today when
\* paymentDay >= today and otherwise the length of the current month - today +
\* paymentDay, which is the number of calendar days to the next paymentDay; the
\* watch item covers the staff at most 5 such days away and the reminder names
\* exactly the staff whose payment day is 3 calendar days away
C20_DaysUntilActualMonth ==
    /\ out.op = "sendMorningBrief" =>
         out.alerts[1].upcoming =
           { e \in { [ name |-> n,
                       daysLeft |-> DaysUntilInMonth(out.staff[n].paymentDay[1], out.day),
                       amount |-> out.staff[n].salaryAmount - out.staff[n].advanceBalance ] :
                     n \in WithPaymentDay(out.staff) } :
               e.daysLeft <= 5 }
    /\ out.op = "sendSalaryReminder" =>
         out.alerts[1].due =
           { n \in WithPaymentDay(out.staff) :
               CalendarDaysUntil(out.staff[n].paymentDay[1], out.day) = 3 }

---------------------------------------------------------------------------
(* The problem day of a forecast *)

\* the least index of a set of forecast indices, <<>> when there is none
Earliest(S) == IF S = {} THEN <<>> ELSE << CHOOSE i \in S : \A j \in S : i <= j >>

\* C21: the first problem day reported for a forecast is the earliest forecast
\* day that is negative or has a salary due; a day that is only low on cash is
\* never reported, and none is reported when no day is negative or a salary day
C21_FirstProblemDay ==
    /\ out.op = "generateProjections" =>
         out.alerts = Earliest({ r.i : r \in { q \in RowsOf(out) :
                                    q.flags \cap {"negative", "salary_due"} # {} } })
    /\ out.op = "generateMorningBrief" =>
         out.alerts = Earliest({ r.i : r \in { q \in RowsOf(out) :
                                    q.isProblem \/ q.hasSalary } })

---------------------------------------------------------------------------
(* The stored projections and their readers *)

\* C22: whenever the stored projections of an owner are read, also during a
\* refresh and after a refresh that failed part-way, the rows read all come
\* from one projection run
C22_RowsOfOneRun ==
    out.op \in {"getState", "getCashForecast"} /\ out.alerts = <<"stored">> =>
        \A r, q \in RowsOf(out) : r.generatedAt = q.generatedAt

\* C30: after refreshProjections has completed on some day, the first N stored
\* projections in ascending date order are the rows of that day and of the
\* N - 1 days after it, as that refresh wrote them, whatever was refreshed before
C30_FirstRowsAreThisRun ==
    out.op = "refreshProjections" =>
        \A N \in {7, 14, 30} :
            TakeByDate(projections, N) = [ k \in 1..N |-> StoredRow(out.rows[k]) ]

---------------------------------------------------------------------------
(* The onboarding wizard *)

StepRank(step) ==
    CHOOSE k \in 1..6 : <<"START", "NAME", "CASH", "STAFF", "PENDING", "COMPLETE">>[k] = step

OnboardingOps == {"handleStart", "handleName", "handleCash", "handleStaffStep", "handlePending"}

---------------------------------------------------------------------------
(* Reliability and part payments *)

\* C24: a payment changes a customer's reliabilityScore and avgDaysToPay only
\* when it brings a receivable of that customer to status paid; a payment that
\* leaves the receivable partial, or finds no open receivable, changes neither
C24_ScoreOnlyOnFullPayment ==
    [][ out'.op = "handleTransaction" =>
          \A c \in 1..Len(customers) :
              ( \/ customers'[c].reliabilityScore # customers[c].reliabilityScore
                \/ customers'[c].avgDaysToPay # customers[c].avgDaysToPay )
              => \E k \in AppliedFor(out', c) : out'.payments[k].after[1].status = "paid" ]_vars

---------------------------------------------------------------------------
(* Cash and the ledger *)

\* the income rows of a ledger less its expense, salary and advance rows
Net(txns) ==
    SumRows(txns, { x \in BagToSet(txns) : x.type = "income" })
      - SumRows(txns, { x \in BagToSet(txns) : x.type \in {"expense", "salary", "advance"} })

\* C25: with the operations handled one at a time, currentCash moves with the
\* ledger: every step changes it by the income amounts it records less the
\* expense, salary and advance amounts it records, so that currentCash is the
\* cash at the end of onboarding plus the net of the ledger
C25_CashFollowsLedger ==
    [][ currentCash' - currentCash = Net(ledger') - Net(ledger) ]_vars

\* a salary paid by the handler and an income logged by message are both on the
\* ledger
C25_Witness ==
    /\ \E x \in BagToSet(ledger) : x.type = "salary" /\ x.via = "handleSalaryPaid"
    /\ \E x \in BagToSet(ledger) : x.type = "income" /\ x.via = "handleTransaction"
    /\ currentCash \in {1000 + Net(ledger), 28500 + Net(ledger)}

---------------------------------------------------------------------------
(* Staff payments and the cash at hand *)

\* C28: handleSalaryPaid and handleAdvance, asked to pay more than currentCash,
\* answer with the shortfall and change nothing (no transaction, the same cash,
\* the same advanceBalance); what they do record is at most the cash at hand, so
\* that it never makes currentCash negative
C28_NoPaymentBeyondCash ==
    [][ out'.op \in {"handleSalaryPaid", "handleAdvance"} =>
          IF out'.payments = <<>>
          THEN ledger' = ledger /\ currentCash' = currentCash /\ staff' = staff
          ELSE /\ out'.payments[1].amount <= currentCash
               /\ currentCash' = currentCash - out'.payments[1].amount
               /\ currentCash' >= 0 ]_vars

\* an advance of 2000 was asked for with 1000 at hand and refused
C28_Witness ==
    /\ out.op = "handleAdvance"
    /\ out.alerts = <<"shortfall", 2000>>
    /\ out.cash = 1000
    /\ currentCash = 1000
    /\ ledger = EmptyBag

\* ---------------------------------------------------------------------------
\* Two messages of one owner handled at the same time.  routeMessage reads the
\* owner row and hands that object to the handler; the handler awaits its
\* writes one by one and ends by writing the cash it computed from the object
\* it was given.  Nothing locks the owner row between the read and the write.
\* ---------------------------------------------------------------------------

MaxInFlight == 2   \* most messages being handled at once

\* routeMessage up to detectIntent: findUnique({ where: { phone }, include: { staff, customers } })
\* and the intent of the message; the handler has not run yet
routeMessage ==
    /\ onboardingStep = "COMPLETE"
    /\ Len(inflight) < MaxInFlight
    /\ \E f \in { [intent |-> "log_" \o m.type, m |-> m] : m \in Messages }
                \cup { [intent |-> "salary_paid", m |-> m] : m \in StaffMessages } :
         inflight' = Append(inflight, [intent |-> f.intent, m |-> f.m,
                                       owner |-> [currentCash |-> currentCash, staff |-> staff]])
    /\ out' = Reply("routeMessage", <<>>, <<>>, <<>>)
    /\ UNCHANGED <<simulator, owners, job, today, currentCash, staff, onboardingStep, ledger,
                   customers, receivables, projections>>

\* routeByIntent(intent, owner, message): the handler of one message in flight
\* runs on the owner object routeMessage read.  handleTransaction looks its
\* customers and receivables up in the database and writes
\* owner.currentCash + totalIn - totalOut; handleSalaryPaid checks and writes
\* owner.currentCash - paidAmount and resets the advance of the staff row.
routeByIntent ==
    \E i \in 1..Len(inflight) :
      LET f == inflight[i]
          owner == f.owner
      IN /\ inflight' = [j \in 1..(Len(inflight) - 1) |->
                           IF j < i THEN inflight[j] ELSE inflight[j + 1]]
         /\ \/ /\ f.intent \in {"log_expense", "log_income"}
               /\ Logged(ledger) + Len(f.m.txns) <= MaxTxns
               /\ LET db == LogTxns([customers |-> customers, receivables |-> receivables,
                                     ledger |-> ledger, totalIn |-> 0, totalOut |-> 0,
                                     payments |-> <<>>],
                                    f.m.txns, f.m.type, today)
                  IN /\ customers' = db.customers
                     /\ receivables' = db.receivables
                     /\ ledger' = db.ledger
                     /\ currentCash' = IF f.m.txns = <<>> THEN currentCash
                                       ELSE owner.currentCash + db.totalIn - db.totalOut
                     /\ out' = Reply("handleTransaction", <<>>, <<>>, db.payments)
               /\ UNCHANGED staff
            \/ /\ f.intent = "salary_paid"
               /\ Logged(ledger) < MaxTxns
               /\ LET found == FindStaff(owner.staff, f.m.name)
                      staffMember == owner.staff[found[1]]
                      salaryDue == staffMember.salaryAmount - staffMember.advanceBalance
                      paidAmount == IF f.m.amount # <<>> THEN f.m.amount[1] ELSE salaryDue
                  IN IF found = <<>> \/ owner.currentCash < paidAmount
                     THEN /\ out' = [Reply("handleSalaryPaid", <<>>, <<>>, <<>>) EXCEPT
                                       !.alerts = IF found = <<>> THEN <<"which staff">>
                                                  ELSE <<"shortfall", paidAmount>>]
                          /\ UNCHANGED <<ledger, currentCash, staff>>
                     ELSE /\ ledger' = ledger (+) SetToBag({Paid("handleSalaryPaid", "salary", found[1], paidAmount).txn})
                          /\ currentCash' = owner.currentCash - paidAmount
                          /\ staff' = [staff EXCEPT ![found[1]].advanceBalance = 0]
                          /\ out' = Paid("handleSalaryPaid", "salary", found[1], paidAmount).out
               /\ UNCHANGED <<customers, receivables>>
         /\ UNCHANGED <<simulator, owners, job, today, onboardingStep, projections>>

InitRace ==
    /\ today = 27
    /\ currentCash = 28500
    /\ staff = SeedStaff
    /\ onboardingStep = "COMPLETE"
    /\ ledger = EmptyBag
    /\ customers = SeedCustomers
    /\ receivables = <<>>
    /\ projections = NoRows
    /\ out = NoOut
    /\ owners = <<>>
    /\ job = NoJob
    /\ inflight = <<>>
    /\ simulator = NoTexts

NextRace == routeMessage \/ routeByIntent \/ logExpense

SpecRace == InitRace /\ [][NextRace]_vars

\* C26: once no message is being handled any more, the owner's cash is the
\* initial cash plus the net amount of all the transactions the handlers
\* recorded: no cash update is lost, whatever the interleaving was.
C26_NoCashUpdateLost ==
    inflight = <<>> => currentCash = 28500 + Net(ledger)

\* ---------------------------------------------------------------------------
\* lib/whatsapp.ts: the replies kept for the simulator.  pendingResponses is a
\* Map from phone to the texts not fetched yet; all three functions run to
\* their end without awaiting in simulator mode.  The k-th text sent is the
\* number k, so that every text can be told from every other.
\* ---------------------------------------------------------------------------

MaxTexts == 3   \* most texts passed to sendMessage

\* const messages = pendingResponses.get(to) || []; messages.push(text);
\* pendingResponses.set(to, messages); return true
\* (with a token and no USE_SIMULATOR the text goes to the Graph API instead,
\* and the call returns response.ok, or false when fetch throws)
sendMessage ==
    /\ Len(simulator.sent) < MaxTexts
    /\ \E to \in {"P1", "P2"} : \E ok \in BOOLEAN :
         LET text == Len(simulator.sent) + 1
             pending == simulator.pendingResponses
             messages == IF to \in DOMAIN pending THEN pending[to] ELSE <<>>
         IN /\ simulator.mode = "simulator" => ok
            /\ simulator' = [simulator EXCEPT
                 !.pendingResponses =
                     IF simulator.mode = "simulator"
                     THEN [p \in DOMAIN pending \cup {to} |->
                             IF p = to THEN Append(messages, text) ELSE pending[p]]
                     ELSE @,
                 !.sent = Append(@, [to |-> to, text |-> text]),
                 !.unread = @ \cup {to},
                 !.returned = [call |-> "sendMessage", phone |-> to, texts |-> <<>>,
                               unread |-> to \in simulator.unread, ok |-> ok]]
    /\ UNCHANGED <<inflight, owners, job, today, currentCash, staff, onboardingStep, ledger,
                   customers, receivables, projections, out>>

\* the same call without pendingResponses.delete(phone)
getSimulatorResponsesKeeps ==
    /\ \E phone \in {"P1", "P2"} :
         LET pending == simulator.pendingResponses
             messages == IF phone \in DOMAIN pending THEN pending[phone] ELSE <<>>
         IN simulator' = [simulator EXCEPT
              !.unread = @ \ {phone},
              !.taken = @ \o [k \in 1..Len(messages) |-> [phone |-> phone, text |-> messages[k]]],
              !.returned = [call |-> "getSimulatorResponses", phone |-> phone,
                            texts |-> messages, unread |-> phone \in simulator.unread,
                            ok |-> TRUE]]
    /\ UNCHANGED <<inflight, owners, job, today, currentCash, staff, onboardingStep, ledger,
                   customers, receivables, projections, out>>

\* const messages = pendingResponses.get(phone) || [];
\* pendingResponses.delete(phone); return messages
getSimulatorResponses ==
    /\ \E phone \in {"P1", "P2"} :
         LET pending == simulator.pendingResponses
             messages == IF phone \in DOMAIN pending THEN pending[phone] ELSE <<>>
         IN simulator' = [simulator EXCEPT
              !.pendingResponses = [p \in DOMAIN pending \ {phone} |-> pending[p]],
              !.unread = @ \ {phone},
              !.taken = @ \o [k \in 1..Len(messages) |-> [phone |-> phone, text |-> messages[k]]],
              !.returned = [call |-> "getSimulatorResponses", phone |-> phone,
                            texts |-> messages, unread |-> phone \in simulator.unread,
                            ok |-> TRUE]]
    /\ UNCHANGED <<inflight, owners, job, today, currentCash, staff, onboardingStep, ledger,
                   customers, receivables, projections, out>>

\* simulatorMessages.delete(phone); pendingResponses.delete(phone)
clearSimulatorData ==
    /\ \E phone \in {"P1", "P2"} :
         LET pending == simulator.pendingResponses
             messages == IF phone \in DOMAIN pending THEN pending[phone] ELSE <<>>
         IN simulator' = [simulator EXCEPT
              !.pendingResponses = [p \in DOMAIN pending \ {phone} |-> pending[p]],
              !.dropped = @ \cup { messages[k] : k \in 1..Len(messages) },
              !.returned = [call |-> "clearSimulatorData", phone |-> phone, texts |-> <<>>,
                            unread |-> phone \in simulator.unread, ok |-> TRUE]]
    /\ UNCHANGED <<inflight, owners, job, today, currentCash, staff, onboardingStep, ledger,
                   customers, receivables, projections, out>>

\* isSimulatorMode(): !process.env.WHATSAPP_TOKEN || process.env.USE_SIMULATOR === "true",
\* fixed by the environment of the process
InitSim ==
    /\ today = 27
    /\ currentCash = 28500
    /\ staff = SeedStaff
    /\ onboardingStep = "COMPLETE"
    /\ ledger = EmptyBag
    /\ customers = SeedCustomers
    /\ receivables = <<>>
    /\ projections = NoRows
    /\ out = NoOut
    /\ owners = <<>>
    /\ job = NoJob
    /\ inflight = <<>>
    /\ \E mode \in {"simulator", "api"} : simulator = [NoTexts EXCEPT !.mode = mode]

NextSim == sendMessage \/ getSimulatorResponses \/ clearSimulatorData

SpecSim == InitSim /\ [][NextSim]_vars

\* the texts of a history of [phone, text] or [to, text] entries
TextsOf(entries) == [k \in 1..Len(entries) |-> entries[k].text]

\* what is still waiting for a phone
PendingFor(phone) ==
    IF phone \in DOMAIN simulator.pendingResponses
    THEN simulator.pendingResponses[phone] ELSE <<>>

\* C29: in simulator mode, for every phone the texts returned to it so far
\* followed by the texts still pending for it are exactly the texts sent to
\* it that clearSimulatorData did not discard, once each and in the order
\* sent; no text is returned to another phone than the one it was sent to;
\* getSimulatorResponses leaves nothing pending for its phone; and a
\* getSimulatorResponses with no sendMessage to its phone since the previous
\* one returns the empty list.
C29_SimulatorQueue ==
    simulator.mode = "simulator" =>
      /\ \A phone \in {"P1", "P2"} :
           TextsOf(SelectSeq(simulator.taken, LAMBDA e : e.phone = phone)) \o PendingFor(phone)
             = TextsOf(SelectSeq(simulator.sent,
                                 LAMBDA e : e.to = phone /\ e.text \notin simulator.dropped))
      /\ \A k \in 1..Len(simulator.taken) :
           simulator.sent[simulator.taken[k].text].to = simulator.taken[k].phone
      /\ simulator.returned.call = "getSimulatorResponses" =>
           /\ PendingFor(simulator.returned.phone) = <<>>
           /\ ~simulator.returned.unread => simulator.returned.texts = <<>>

\* two texts sent to one phone come back together from one call, after a
\* text sent to the other phone was fetched by the other phone
C29_Witness ==
    /\ simulator.mode = "simulator"
    /\ simulator.returned.call = "getSimulatorResponses"
    /\ Len(simulator.returned.texts) = 2
    /\ \E k \in 1..Len(simulator.taken) : simulator.taken[k].phone # simulator.returned.phone

\* ---------------------------------------------------------------------------
\* Onboarding through both chat routes.  POST of api/simulator calls
\* routeMessage, which hands an owner still onboarding to handleOnboarding of
\* services/onboarding.ts; POST of api/chat calls runAgent, which hands it to
\* the handleOnboarding of lib/ai.ts.  Both read and write the same
\* onboardingStep column.
\* ---------------------------------------------------------------------------

\* a message of the owner arrives at one of the two routes; no reply is made yet
POST ==
    /\ out.op \notin {"POST api/simulator", "POST api/chat"}
    /\ \E route \in {"api/simulator", "api/chat"} :
         out' = Reply("POST " \o route, <<>>, <<>>, <<>>)
    /\ UNCHANGED <<inflight, simulator, owners, job, today, currentCash, staff, onboardingStep,
                   ledger, customers, receivables, projections>>

\* routeMessage: if (owner.onboardingStep !== "COMPLETE") return handleOnboarding(...);
\* switch (step) with its default branch, for an answer the step accepts
handleOnboarding ==
    /\ out.op = "POST api/simulator"
    /\ onboardingStep # "COMPLETE"
    /\ \/ handleStart
       \/ handleName
       \/ handleCash
       \/ handleStaffStep
       \/ handlePending
       \/ /\ onboardingStep \notin {"START", "NAME", "CASH", "STAFF", "PENDING"}
          /\ onboardingStep' = "COMPLETE"
          /\ out' = Reply("handleOnboarding", <<>>, <<>>, <<>>)
          /\ UNCHANGED <<inflight, simulator, owners, job, today, currentCash, staff, ledger,
                         customers, receivables, projections>>
    /\ onboardingStep' # onboardingStep

\* runAgent: if (owner.onboardingStep !== "COMPLETE") return await handleOnboarding(owner, message);
\* START -> GET_BUSINESS -> GET_CASH -> COMPLETE, cash = parseInt(digits) || 0;
\* at any other step: return "Kuch gadbad ho gayi. 'Hi' bol ke phir se shuru karo."
runAgent ==
    /\ out.op = "POST api/chat"
    /\ onboardingStep # "COMPLETE"
    /\ \E cash \in {0, 28500} :
         /\ onboardingStep' = CASE onboardingStep = "START" -> "GET_BUSINESS"
                                [] onboardingStep = "GET_BUSINESS" -> "GET_CASH"
                                [] onboardingStep = "GET_CASH" -> "COMPLETE"
                                [] OTHER -> onboardingStep
         /\ currentCash' = IF onboardingStep = "GET_CASH" THEN cash ELSE currentCash
    /\ out' = [Reply("runAgent", <<>>, <<>>, <<>>) EXCEPT
                 !.alerts = IF onboardingStep \in {"START", "GET_BUSINESS", "GET_CASH"}
                            THEN <<>> ELSE <<"Kuch gadbad ho gayi">>]
    /\ UNCHANGED <<inflight, simulator, owners, job, today, staff, ledger, customers,
                   receivables, projections>>

NextOnboard == POST \/ handleOnboarding \/ runAgent \/ Tick

\* the owner keeps sending messages and every request is answered: some step
\* is always taken while one is possible; which route takes a message is
\* free, and days may pass in between
SpecOnboard == Init /\ [][NextOnboard]_vars /\ WF_vars(NextOnboard)

\* C27: an owner created on first contact who keeps sending well-formed
\* answers eventually has onboardingStep COMPLETE, whichever route handles
\* each of the messages.
C27_EventuallyComplete == <>(onboardingStep = "COMPLETE")

====
